---- MODULE Spec2Model ----
(***************************************************************************)
(* Swrd: session-scoped context distiller.                                 *)
(*                                                                         *)
(* The model follows the TypeScript sources: the SQLite store (db.ts), the *)
(* hook handlers (on-prompt, on-tool, on-stop, session-start), the Grouper *)
(* (entry-tracker), the rule-based self annotator, the detached LLM        *)
(* annotator (annotate.ts) and the Retriever (retrieve.ts).                *)
(*                                                                         *)
(* better-sqlite3 runs every prepared statement in its own implicit        *)
(* transaction (the code never opens one), so one SQL statement is one     *)
(* atomic step.  A detached annotate process takes one statement per step; *)
(* the hook process takes one store call (insertEntry, annotateEntry,      *)
(* insertSummaryEntry, a query) per step, so the steps of the annotate     *)
(* processes fall between the hook's calls and the hook's calls fall       *)
(* between the statements of an annotate process.                          *)
(***************************************************************************)
EXTENDS Integers, Sequences, FiniteSets, TLC

VARIABLES
  db,      \* the per-session database: entries, entries_fts, fts_map, entry_links, session_state
  buffer,  \* the JSONL buffer files, by file name: each a sequence of lines
  config,  \* ~/.distill/config.json as loadConfig returns it
  hook,    \* the hook process the host is running (hooks are serialized by the host)
  ann,     \* the detached annotate processes, by spawn order
  aux      \* observations kept for the properties (history), never read by the code
           \* (aux.appended stands for the clock on-tool stamps its lines with)

vars == <<db, buffer, config, hook, ann, aux>>

(***************************************************************************)
(* Bounds of the model.                                                    *)
(***************************************************************************)
MaxPrompts == 2     \* on-prompt invocations in a behaviour
MaxStops == 2       \* on-stop invocations that reach the database
MaxBuffer == 1      \* buffered calls between two on-stop
MaxAnnotations == 1 \* annotations in one LLM response
MaxActive == 1      \* annotate processes running at the same time
RetryStops == 3     \* on-stop invocations when the provider is down
RetryPrompts == 1   \* on-prompt invocations when the provider is down
MaxEntries == 3     \* rows of entries in the stores built by direct calls
MaxCalls == 4       \* direct calls that build a store
SmallBudget == 20   \* the small token budget given to retrieveContext
GroupBuffer == 2    \* buffered calls of the one on-stop that exercises the Grouper
NoopBuffer == 2     \* buffer lines where some lines do not parse
ExpandStops == 5    \* on-stop invocations that fill one semantic group
BookStops == 1      \* on-stop invocations between the on-prompt whose answers are compared
BookPrompts == 2    \* on-prompt invocations whose answers are compared
MaxTorn == 3        \* lines that do not parse, over the whole run
AsyncStops == 2     \* on-stop invocations that overlap with on-tool
AsyncBuffer == 2    \* buffered calls while on-tool runs beside on-stop
AsyncCalls == 3     \* on-tool appends up to which one may still run beside on-stop
OverlapActive == 2  \* annotate processes running at the same time when runs overlap
OverlapStops == 3   \* on-stop invocations when annotate runs overlap
OverlapPrompts == 1 \* on-prompt invocations when annotate runs overlap

(***************************************************************************)
(* Program constants (config.ts).                                          *)
(***************************************************************************)
TOKEN_BUDGET == 4000
CHARS_PER_TOKEN == 4
FTS_RESULT_LIMIT == 50
GROUP_EXPANSION_LIMIT == 3
FTS_MAX_TERMS == 16
MAX_HISTORICAL_ENTRIES == 30
MAX_RETRIES == 10

\* IGNORED_TOOLS with TodoWrite left out
IGNORED_TOOLS_NoTodoWrite ==
  {"EnterPlanMode", "ExitPlanMode", "AskUserQuestion", "TodoRead",
   "TaskCreate", "TaskUpdate", "TaskList", "TaskGet"}

IGNORED_TOOLS ==
  {"EnterPlanMode", "ExitPlanMode", "AskUserQuestion", "TodoRead", "TodoWrite",
   "TaskCreate", "TaskUpdate", "TaskList", "TaskGet"}
FILE_TOOLS == {"Read", "Write", "Edit", "Glob", "Grep", "NotebookEdit"}
WRITE_TOOLS == {"Write", "Edit", "NotebookEdit"}

\* SQL NULL / a JavaScript undefined field, for text columns
Null == "<null>"

(***************************************************************************)
(* Small helpers.                                                          *)
(***************************************************************************)
Max(S) == CHOOSE m \in S : \A n \in S : n <= m

RECURSIVE SeqOfSet(_)
\* the elements of a finite set of integers in ascending order (rowid order)
SeqOfSet(S) ==
  IF S = {} THEN <<>>
  ELSE LET m == CHOOSE a \in S : \A b \in S : a <= b
       IN <<m>> \o SeqOfSet(S \ {m})

Range(s) == {s[i] : i \in DOMAIN s}

RECURSIVE Join(_, _)
\* Array.prototype.join
Join(parts, sep) ==
  IF parts = <<>> THEN ""
  ELSE IF Len(parts) = 1 THEN parts[1]
  ELSE parts[1] \o sep \o Join(Tail(parts), sep)

\* a list in place of the insertion-ordered Set: every occurrence is kept
DedupKeepsAll(s) == s

RECURSIVE Dedup(_)
\* insertion-ordered Set: keeps the first occurrence of each element
Dedup(s) ==
  IF s = <<>> THEN <<>>
  ELSE LET r == Dedup(SubSeq(s, 1, Len(s) - 1))
       IN IF s[Len(s)] \in Range(r) THEN r ELSE Append(r, s[Len(s)])

Take(s, n) == SubSeq(s, 1, IF Len(s) < n THEN Len(s) ELSE n)

(***************************************************************************)
(* String(idx) and parseInt(v, 10) on the stored prompt_index: the value   *)
(* is kept as its decimal digits.                                          *)
(***************************************************************************)
RECURSIVE ToDigits(_)
ToDigits(n) == IF n < 10 THEN <<n>> ELSE Append(ToDigits(n \div 10), n % 10)

RECURSIVE ParseInt(_)
ParseInt(ds) ==
  IF Len(ds) = 1 THEN ds[1]
  ELSE 10 * ParseInt(SubSeq(ds, 1, Len(ds) - 1)) + ds[Len(ds)]

(***************************************************************************)
(* The store (db.ts).                                                      *)
(*  entries     : sequence of rows, row i has id i (AUTOINCREMENT, rows    *)
(*                are never deleted)                                       *)
(*  fts         : set of FTS5 documents, each with its rowid               *)
(*  fts_map     : set of (fts_rowid, entry_id) rows                        *)
(*  links       : set of (source_id, target_id, link_type)                 *)
(*  state       : session_state; prompt_index (absent = <<>>) and the      *)
(*                prompt_<N> texts                                         *)
(*  schema      : the tables exist (created on first open)                 *)
(* created_at and related_files are written and never read back by any     *)
(* modelled code; they are left out of the rows.                           *)
(***************************************************************************)
EmptyDb ==
  [schema |-> FALSE,
   entries |-> <<>>,
   fts |-> {},
   fts_map |-> {},
   links |-> {},
   prompt_index |-> <<>>,
   prompts |-> <<>>]

\* openDb that creates the schema on every open, over a new file
openDbCreates(d) == [EmptyDb EXCEPT !.schema = TRUE]

\* openDb: createSchema unless the entries table exists
openDb(d) == [d EXCEPT !.schema = TRUE]

\* getPromptIndex: v ? parseInt(v, 10) : 0
getPromptIndex(d) == IF d.prompt_index = <<>> THEN 0 ELSE ParseInt(d.prompt_index)

\* setPromptIndex with the write lost
setPromptIndexLost(d, idx) == d

\* setPromptIndex: setState(db, 'prompt_index', String(idx))
setPromptIndex(d, idx) == [d EXCEPT !.prompt_index = ToDigits(idx)]

\* setState(db, `prompt_${idx}`, text): INSERT OR REPLACE
setPromptText(d, idx, text) ==
  [d EXCEPT !.prompts =
     [i \in 1..(IF idx > Len(d.prompts) THEN idx ELSE Len(d.prompts)) |->
        IF i = idx THEN text
        ELSE IF i <= Len(d.prompts) THEN d.prompts[i] ELSE Null]]

\* getState(db, `prompt_${idx}`)
getPromptText(d, idx) ==
  IF idx \in 1..Len(d.prompts) THEN d.prompts[idx] ELSE Null

EntryIds(d) == 1..Len(d.entries)

\* the INSERT of insertEntry binding the prompt index one too high
StmtInsertEntryRowNext(d, promptIndex, filePath, entryType, toolCalls) ==
  [d EXCEPT !.entries = Append(@,
     [prompt_index |-> promptIndex + 1,
      file_path |-> filePath,
      entry_type |-> entryType,
      tool_calls |-> toolCalls,
      description |-> Null,
      tags |-> Null,
      semantic_group |-> Null,
      confidence |-> 0,
      low_relevance |-> 0,
      annotation_status |-> "pending"])]

\* INSERT INTO entries (prompt_index, file_path, entry_type, tool_calls, created_at):
\* the other columns take their schema defaults
StmtInsertEntryRow(d, promptIndex, filePath, entryType, toolCalls) ==
  [d EXCEPT !.entries = Append(@,
     [prompt_index |-> promptIndex,
      file_path |-> filePath,
      entry_type |-> entryType,
      tool_calls |-> toolCalls,
      description |-> Null,
      tags |-> Null,
      semantic_group |-> Null,
      confidence |-> 0,
      low_relevance |-> 0,
      annotation_status |-> "pending"])]

\* the INSERT of insertSummaryEntry leaving annotation_status to its default
StmtInsertSummaryRowPending(d, promptIndex, summary, tags) ==
  [d EXCEPT !.entries = Append(@,
     [prompt_index |-> promptIndex,
      file_path |-> Null,
      entry_type |-> "summary",
      tool_calls |-> <<>>,
      description |-> summary,
      tags |-> tags,
      semantic_group |-> Null,
      confidence |-> 0,
      low_relevance |-> 0,
      annotation_status |-> "pending"])]

\* INSERT INTO entries (... 'summary', description, tags, 'annotated', ...)
StmtInsertSummaryRow(d, promptIndex, summary, tags) ==
  [d EXCEPT !.entries = Append(@,
     [prompt_index |-> promptIndex,
      file_path |-> Null,
      entry_type |-> "summary",
      tool_calls |-> <<>>,
      description |-> summary,
      tags |-> tags,
      semantic_group |-> Null,
      confidence |-> 0,
      low_relevance |-> 0,
      annotation_status |-> "annotated"])]

\* lastInsertRowid of an INSERT INTO entries
LastEntryId(d) == Len(d.entries)

\* the rowid FTS5 gives the next inserted document: one more than the largest
NextFtsRowid(d) ==
  IF d.fts = {} THEN 1 ELSE Max({f.rowid : f \in d.fts}) + 1

\* INSERT INTO entries_fts(file_path, description, tags, semantic_group)
StmtInsertFts(d, filePath, description, tags, semanticGroup) ==
  [d EXCEPT !.fts = @ \cup
     {[rowid |-> NextFtsRowid(d),
       file_path |-> filePath,
       description |-> description,
       tags |-> tags,
       semantic_group |-> semanticGroup]}]

\* fts_map: fts_rowid INTEGER PRIMARY KEY, entry_id INTEGER NOT NULL UNIQUE
MapInsertAllowed(d, ftsRowid, entryId) ==
  \A m \in d.fts_map : m.fts_rowid # ftsRowid /\ m.entry_id # entryId

\* INSERT INTO fts_map (fts_rowid, entry_id); throws when MapInsertAllowed is false
StmtInsertMap(d, ftsRowid, entryId) ==
  [d EXCEPT !.fts_map = @ \cup {[fts_rowid |-> ftsRowid, entry_id |-> entryId]}]

\* the UPDATE of annotateEntry binding the semantic group to file_path as well
StmtUpdateMovesPath(d, id, description, tags, semanticGroup, confidence, lowRelevance) ==
  IF id \in EntryIds(d)
  THEN [d EXCEPT !.entries[id] =
          [@ EXCEPT !.description = description,
                    !.tags = tags,
                    !.semantic_group = semanticGroup,
                    !.file_path = semanticGroup,
                    !.confidence = confidence,
                    !.low_relevance = IF lowRelevance THEN 1 ELSE 0,
                    !.annotation_status = "annotated"]]
  ELSE d

\* the UPDATE of annotateEntry without annotation_status = 'annotated'
StmtUpdateKeepsStatus(d, id, description, tags, semanticGroup, confidence, lowRelevance) ==
  IF id \in EntryIds(d)
  THEN [d EXCEPT !.entries[id] =
          [@ EXCEPT !.description = description,
                    !.tags = tags,
                    !.semantic_group = semanticGroup,
                    !.confidence = confidence,
                    !.low_relevance = IF lowRelevance THEN 1 ELSE 0]]
  ELSE d

\* UPDATE entries SET description.., annotation_status = 'annotated' WHERE id = ?
StmtUpdateAnnotated(d, id, description, tags, semanticGroup, confidence, lowRelevance) ==
  IF id \in EntryIds(d)
  THEN [d EXCEPT !.entries[id] =
          [@ EXCEPT !.description = description,
                    !.tags = tags,
                    !.semantic_group = semanticGroup,
                    !.confidence = confidence,
                    !.low_relevance = IF lowRelevance THEN 1 ELSE 0,
                    !.annotation_status = "annotated"]]
  ELSE d

\* SELECT file_path FROM entries WHERE id = ?   (entry?.file_path ?? '')
SelectFilePath(d, id) ==
  IF id \in EntryIds(d) /\ d.entries[id].file_path # Null
  THEN d.entries[id].file_path ELSE ""

\* SELECT fts_rowid FROM fts_map WHERE entry_id = ?  (0 = no row, rowids start at 1)
SelectMapping(d, id) ==
  IF \E m \in d.fts_map : m.entry_id = id
  THEN (CHOOSE m \in d.fts_map : m.entry_id = id).fts_rowid
  ELSE 0

\* DELETE FROM entries_fts WHERE rowid = ?
StmtDeleteFts(d, rowid) == [d EXCEPT !.fts = {f \in @ : f.rowid # rowid}]

\* DELETE FROM fts_map WHERE entry_id = ?
StmtDeleteMap(d, id) == [d EXCEPT !.fts_map = {m \in @ : m.entry_id # id}]

\* insertLink: INSERT OR IGNORE INTO entry_links, UNIQUE(source_id, target_id, link_type)
insertLink(d, sourceId, targetId, linkType) ==
  [d EXCEPT !.links = @ \cup
     {[source_id |-> sourceId, target_id |-> targetId, link_type |-> linkType]}]

\* markFailed: UPDATE .. 'failed' WHERE prompt_index = ? AND status IN ('pending','annotating')
markFailed(d, promptIndex) ==
  [d EXCEPT !.entries =
     [i \in DOMAIN @ |->
        IF @[i].prompt_index = promptIndex
           /\ @[i].annotation_status \in {"pending", "annotating"}
        THEN [@[i] EXCEPT !.annotation_status = "failed"]
        ELSE @[i]]]

\* getPendingEntries: the ids, in rowid order
getPendingEntries(d, promptIndex) ==
  SeqOfSet({i \in EntryIds(d) :
              /\ d.entries[i].prompt_index = promptIndex
              /\ d.entries[i].annotation_status \in {"pending", "annotating"}})

RECURSIVE SortByPromptDesc(_, _)
\* ORDER BY prompt_index DESC; rows of equal prompt_index in rowid order
SortByPromptDesc(d, S) ==
  IF S = {} THEN <<>>
  ELSE LET top == CHOOSE a \in S :
                    \A b \in S :
                      \/ d.entries[a].prompt_index > d.entries[b].prompt_index
                      \/ /\ d.entries[a].prompt_index = d.entries[b].prompt_index
                         /\ a <= b
       IN <<top>> \o SortByPromptDesc(d, S \ {top})

\* getFailedEntries: status 'failed', ORDER BY prompt_index DESC LIMIT ?
getFailedEntries(d, limit) ==
  Take(SortByPromptDesc(d, {i \in EntryIds(d) :
                              d.entries[i].annotation_status = "failed"}), limit)

\* getHistoricalEntries: 'annotated' AND prompt_index < ?, ORDER BY prompt_index DESC LIMIT ?
getHistoricalEntries(d, beforePrompt, limit) ==
  Take(SortByPromptDesc(d, {i \in EntryIds(d) :
                              /\ d.entries[i].annotation_status = "annotated"
                              /\ d.entries[i].prompt_index < beforePrompt}), limit)

\* markAnnotating: UPDATE .. 'annotating' WHERE id IN (ids); nothing for an empty list
markAnnotating(d, ids) ==
  [d EXCEPT !.entries =
     [i \in DOMAIN @ |->
        IF i \in Range(ids)
        THEN [@[i] EXCEPT !.annotation_status = "annotating"]
        ELSE @[i]]]

\* UPDATE entries SET annotation_status = 'failed' WHERE id = ?   (annotate.ts:238)
StmtSetFailed(d, id) ==
  IF id \in EntryIds(d)
  THEN [d EXCEPT !.entries[id].annotation_status = "failed"]
  ELSE d

(***************************************************************************)
(* Buffered tool calls (on-tool.ts) and the Grouper (entry-tracker.ts).    *)
(* A call is [tool_name, tool_input]; tool_input maps every field name the *)
(* code reads to its text, Null when the field is absent.  A buffered call *)
(* is a line of the buffer: the call and ts, the time on-tool wrote it.    *)
(***************************************************************************)
InputFields ==
  {"file_path", "notebook_path", "pattern", "command", "query", "url", "prompt",
   "description", "old_string", "new_string", "glob", "path"}

NoInput == [k \in InputFields |-> Null]

\* TOOL_KEY_FIELDS[tool_name], Null when the tool has no key field
TOOL_KEY_FIELDS(tool) ==
  CASE tool \in {"Read", "Write", "Edit"} -> "file_path"
    [] tool = "NotebookEdit" -> "notebook_path"
    [] tool \in {"Glob", "Grep"} -> "pattern"
    [] tool = "Bash" -> "command"
    [] tool = "WebSearch" -> "query"
    [] tool = "WebFetch" -> "url"
    [] tool = "Task" -> "prompt"
    [] OTHER -> Null

RECURSIVE Repeat(_, _)
Repeat(c, n) == IF n = 0 THEN "" ELSE c \o Repeat(c, n - 1)

\* truncate(s, max): s.length > max ? s.slice(0, max) + '...' : s
\* (a cut text is kept by its length only: max characters and the ellipsis)
truncate(s, max) == IF Len(s) > max THEN Repeat("#", max) \o "..." ELSE s

\* classifyTool without the WebFetch case
classifyToolNoFetch(name) ==
  IF name = "Bash" THEN "command"
  ELSE IF name = "WebSearch" THEN "web"
  ELSE "research"

\* classifyTool
classifyTool(name) ==
  IF name = "Bash" THEN "command"
  ELSE IF name \in {"WebSearch", "WebFetch"} THEN "web"
  ELSE "research"

\* summarizeCall keeping the time on-tool stamped the line with
summarizeCallStamped(call) ==
  [tool |-> call.tool_name,
   fields |-> [k \in InputFields |->
                 IF k = TOOL_KEY_FIELDS(call.tool_name) THEN call.tool_input[k] ELSE Null],
   ts |-> call.ts]

\* summarizeCall: tool, the key field (truncated to 300) and the tool's extras;
\* a field the summary does not carry is Null
summarizeCall(call) ==
  LET name == call.tool_name
      inp == call.tool_input
      keyField == TOOL_KEY_FIELDS(name)
      extras ==
        CASE name = "Edit" -> {"old_string", "new_string"}
          [] name = "Grep" -> {"glob", "path"}
          [] name \in {"Bash", "Task"} -> {"description"}
          [] OTHER -> {}
  IN [tool |-> name,
      fields |->
        [k \in InputFields |->
           IF k = keyField /\ inp[k] # Null THEN truncate(inp[k], 300)
           ELSE IF k \in extras /\ inp[k] \notin {Null, ""}
                THEN IF k \in {"glob", "path"} THEN inp[k] ELSE truncate(inp[k], 200)
           ELSE Null]]

\* the key flushToEntries groups a file tool's call by
FileGroupKey(call) ==
  IF call.tool_input["file_path"] # Null THEN call.tool_input["file_path"]
  ELSE IF call.tool_input["notebook_path"] # Null THEN call.tool_input["notebook_path"]
  ELSE "_unknown"

\* flushToEntries: the insertEntry calls it makes, in order: one per file group
\* (Map insertion order = first occurrence of the key), then one per standalone call
flushToEntries(calls) ==
  LET kept == SelectSeq(calls, LAMBDA c : c.tool_name \notin IGNORED_TOOLS)
      fileCalls == SelectSeq(kept, LAMBDA c : c.tool_name \in FILE_TOOLS)
      standalone == SelectSeq(kept, LAMBDA c : c.tool_name \notin FILE_TOOLS)
      keys == Dedup([i \in DOMAIN fileCalls |-> FileGroupKey(fileCalls[i])])
      groupOf(fp) == SelectSeq(fileCalls, LAMBDA c : FileGroupKey(c) = fp)
      fileEntry(fp) ==
        LET group == groupOf(fp)
        IN [file_path |-> fp,
            entry_type |-> IF \E i \in DOMAIN group : group[i].tool_name \in WRITE_TOOLS
                           THEN "file_change" ELSE "research",
            tool_calls |-> [i \in DOMAIN group |-> summarizeCall(group[i])]]
      standaloneEntry(call) ==
        LET keyField == TOOL_KEY_FIELDS(call.tool_name)
        IN [file_path |->
              IF keyField = Null THEN Null
              ELSE truncate(IF call.tool_input[keyField] = Null THEN ""
                            ELSE call.tool_input[keyField], 500),
            entry_type |-> classifyTool(call.tool_name),
            tool_calls |-> <<summarizeCall(call)>>]
  IN [i \in DOMAIN keys |-> fileEntry(keys[i])]
     \o [i \in DOMAIN standalone |-> standaloneEntry(standalone[i])]

(***************************************************************************)
(* Texts of the model.  TLC cannot look inside a string, so what the code  *)
(* computes from the characters of a text (split, tokenize) is tabulated   *)
(* for the texts that occur.                                               *)
(***************************************************************************)
\* p.split('/').filter(Boolean)
PathParts(p) ==
  CASE p = "src/a.ts" -> <<"src", "a.ts">>
    [] p = "src/db/b.ts" -> <<"src", "db", "b.ts">>
    [] p = "src/b.ts" -> <<"src", "b.ts">>
    [] p = "" -> <<>>
    [] OTHER -> <<p>>

\* filename.split('.').pop()
LastDotPart(f) ==
  CASE f = "a.ts" -> "ts"
    [] f = "b.ts" -> "ts"
    [] f = "nb.ipynb" -> "ipynb"
    [] OTHER -> f

\* KEYWORD_STOPS
KEYWORD_STOPS ==
  {"the", "a", "an", "is", "are", "was", "were", "be", "been",
   "to", "of", "in", "for", "on", "with", "at", "by", "from",
   "and", "or", "but", "not", "this", "that", "it", "its",
   "run", "running", "use", "using", "all"}

\* text.toLowerCase().replace(/[^\w\s-]/g, ' ').split(/\s+/)
KeywordWords(text) ==
  CASE text = "a.ts" -> <<"a", "ts">>
    [] text = "the" -> <<"the">>
    [] text = "" -> <<"">>
    [] OTHER -> <<text>>

\* extractKeywords
extractKeywords(text) ==
  SelectSeq(KeywordWords(text), LAMBDA w : Len(w) > 2 /\ w \notin KEYWORD_STOPS)

\* String(n) for a small count
NumStr(n) ==
  Join([i \in DOMAIN ToDigits(n) |->
          CASE ToDigits(n)[i] = 0 -> "0" [] ToDigits(n)[i] = 1 -> "1"
            [] ToDigits(n)[i] = 2 -> "2" [] ToDigits(n)[i] = 3 -> "3"
            [] ToDigits(n)[i] = 4 -> "4" [] ToDigits(n)[i] = 5 -> "5"
            [] ToDigits(n)[i] = 6 -> "6" [] ToDigits(n)[i] = 7 -> "7"
            [] ToDigits(n)[i] = 8 -> "8" [] OTHER -> "9"], "")

(***************************************************************************)
(* Self annotator (self-annotate.ts).                                      *)
(***************************************************************************)
\* shortenPath
shortenPath(p) ==
  LET parts == PathParts(p)
  IN IF Len(parts) <= 3 THEN p
     ELSE ".../" \o Join(SubSeq(parts, Len(parts) - 2, Len(parts)), "/")

\* the first call whose summary carries field k (calls.find(c => c[k])), as its text
FirstField(calls, k) ==
  LET hits == SelectSeq(calls, LAMBDA c : c.fields[k] \notin {Null, ""})
  IN IF hits = <<>> THEN Null ELSE hits[1].fields[k]

\* buildDescription
buildDescription(entry, calls) ==
  LET fp == entry.file_path
      shortPath == IF fp \notin {Null, ""} THEN shortenPath(fp) ELSE ""
      tools == {calls[i].tool : i \in DOMAIN calls}
      orDefault(s, dflt) == IF s = "" THEN dflt ELSE s
      first(k) == IF calls = <<>> THEN Null ELSE calls[1].fields[k]
      truthy(s) == s \notin {Null, ""}
  IN CASE entry.entry_type = "file_change" ->
            IF "Write" \in tools /\ "Edit" \notin tools THEN "Created " \o shortPath
            ELSE IF "Edit" \in tools
            THEN LET n == Len(SelectSeq(calls, LAMBDA c : c.tool = "Edit"))
                 IN "Modified " \o shortPath \o " (" \o NumStr(n) \o " edit"
                      \o (IF n > 1 THEN "s" ELSE "") \o ")"
            ELSE "Changed " \o shortPath
       [] entry.entry_type = "research" ->
            IF "Glob" \in tools \/ "Grep" \in tools
            THEN IF truthy(FirstField(calls, "pattern"))
                 THEN "Searched for \"" \o truncate(FirstField(calls, "pattern"), 60) \o "\""
                 ELSE "Explored " \o orDefault(shortPath, "codebase")
            ELSE IF "Read" \in tools THEN "Read " \o shortPath
            ELSE IF "Task" \in tools
            THEN IF truthy(FirstField(calls, "description"))
                 THEN "Subagent: " \o truncate(FirstField(calls, "description"), 80)
                 ELSE "Ran subagent task"
            ELSE "Researched " \o orDefault(shortPath, "codebase")
       [] entry.entry_type = "command" ->
            IF truthy(first("description"))
            THEN "Ran: " \o truncate(first("description"), 80)
            ELSE IF truthy(first("command"))
            THEN "Ran: " \o truncate(first("command"), 80)
            ELSE "Ran shell command"
       [] entry.entry_type = "web" ->
            IF truthy(first("query")) THEN "Web search: " \o truncate(first("query"), 80)
            ELSE IF truthy(first("url")) THEN "Fetched: " \o truncate(first("url"), 80)
            ELSE "Web activity"
       [] OTHER -> entry.entry_type \o " on " \o orDefault(shortPath, "unknown")

\* toLowerCase of a tool name
LowerTool(t) ==
  CASE t = "Read" -> "read" [] t = "Write" -> "write" [] t = "Edit" -> "edit"
    [] t = "Glob" -> "glob" [] t = "Grep" -> "grep" [] t = "Bash" -> "bash"
    [] t = "NotebookEdit" -> "notebookedit" [] t = "WebSearch" -> "websearch"
    [] t = "WebFetch" -> "webfetch" [] t = "Task" -> "task"
    [] OTHER -> t

RECURSIVE Flatten(_)
Flatten(ss) == IF ss = <<>> THEN <<>> ELSE ss[1] \o Flatten(Tail(ss))

\* buildTags: the tags in Set insertion order, as a sequence
buildTagList(entry, calls, userPrompt) ==
  LET fp == entry.file_path
      parts == IF fp \in {Null, ""} THEN <<>> ELSE PathParts(fp)
      filename == IF parts = <<>> THEN "" ELSE parts[Len(parts)]
      ext == LastDotPart(filename)
      fromPath ==
        (IF filename # "" THEN <<filename>> ELSE <<>>)
        \o (IF ext # "" /\ ext # filename THEN <<ext>> ELSE <<>>)
        \o (IF Len(parts) >= 2 THEN <<parts[Len(parts) - 1]>> ELSE <<>>)
      fromTools == [i \in DOMAIN calls |-> LowerTool(calls[i].tool)]
      fromDescs ==
        Flatten([i \in DOMAIN calls |->
                   IF calls[i].fields["description"] \in {Null, ""} THEN <<>>
                   ELSE extractKeywords(calls[i].fields["description"])])
      fromPrompt == Take(extractKeywords(userPrompt), 5)
  IN Dedup(fromPath \o <<entry.entry_type>> \o fromTools \o fromDescs \o fromPrompt)

\* buildTags: [...tags].join(',')
buildTags(entry, calls, userPrompt) == Join(buildTagList(entry, calls, userPrompt), ",")

\* buildGroup
buildGroup(entry) ==
  IF entry.file_path \in {Null, ""} THEN entry.entry_type
  ELSE LET parts == PathParts(entry.file_path)
       IN IF Len(parts) >= 2 THEN parts[Len(parts) - 1]
          ELSE IF parts # <<>> THEN parts[1] ELSE entry.entry_type

\* isLowRelevance: every path returns false
isLowRelevance(entry, calls) == FALSE

\* the summary text selfAnnotatePrompt builds from the descriptions
selfSummary(summaryParts) ==
  IF Len(summaryParts) = 1 THEN summaryParts[1]
  ELSE NumStr(Len(summaryParts)) \o " activities: "
         \o Join(Take(summaryParts, 3), "; ")
         \o (IF Len(summaryParts) > 3 THEN "..." ELSE "")

\* the summary tags: all entries' tags joined, split on ',', empty dropped, deduplicated
selfSummaryTags(d, ids, userPrompt) ==
  Join(Dedup(SelectSeq(
         Flatten([i \in DOMAIN ids |->
                    buildTagList(d.entries[ids[i]], d.entries[ids[i]].tool_calls, userPrompt)]),
         LAMBDA t : t # "")), ",")

(***************************************************************************)
(* Retriever (retrieve.ts).                                                *)
(***************************************************************************)
STOPWORDS ==
  {"the", "a", "an", "is", "are", "was", "were", "be", "been",
   "being", "have", "has", "had", "do", "does", "did", "will",
   "would", "could", "should", "may", "might", "can", "shall",
   "to", "of", "in", "for", "on", "with", "at", "by", "from",
   "this", "that", "these", "those", "it", "its", "and", "or",
   "but", "not", "no", "if", "then", "else", "when", "where",
   "how", "what", "which", "who", "whom", "why", "all", "each",
   "any", "some", "such", "than", "too", "very", "just", "about",
   "into", "through", "during", "before", "after", "above", "below",
   "between", "out", "off", "over", "under", "again", "further",
   "once", "here", "there", "also", "both", "few", "more", "most",
   "other", "only", "own", "same", "so", "up", "down", "now",
   "file", "code", "use", "using", "used", "make", "like",
   "need", "want", "get", "set", "add", "new", "please"}

\* prompt.toLowerCase().replace(/[^\w\s\/\.\-]/g, ' ').split(/\s+/)
PromptWords(prompt) ==
  CASE prompt = "a.ts" -> <<"a.ts">>
    [] prompt = "the" -> <<"the">>
    [] prompt = "ls a.ts" -> <<"ls", "a.ts">>
    [] OTHER -> <<prompt>>

\* buildFtsQuery: the terms it quotes and joins with OR; <<>> stands for null
buildFtsQuery(prompt) ==
  Take(SelectSeq(PromptWords(prompt), LAMBDA t : Len(t) > 2 /\ t \notin STOPWORDS),
       FTS_MAX_TERMS)

\* the quoted query terms that a column text matches under the porter unicode61
\* tokenizer, for the texts of the model
FtsTerms(text) ==
  CASE text \in {"src/a.ts", "Read src/a.ts", "a.ts,ts,src,research,read",
                 "2 activities: Read src/a.ts; Ran: ls",
                 "a.ts,ts,src,research,read,ls,command,bash"} -> {"a.ts"}
    [] text \in {"note a.ts", "a.ts,llm"} -> {"a.ts"}
    [] OTHER -> {}

\* entries_fts MATCH ?  (an OR of the quoted terms, over all four columns)
FtsMatch(doc, terms) ==
  (FtsTerms(doc.file_path) \cup FtsTerms(doc.description)
     \cup FtsTerms(doc.tags) \cup FtsTerms(doc.semantic_group))
  \cap Range(terms) # {}

\* the row a retrieval query returns for entry id
FtsEntry(d, id) ==
  [id |-> id,
   prompt_index |-> d.entries[id].prompt_index,
   file_path |-> d.entries[id].file_path,
   entry_type |-> d.entries[id].entry_type,
   description |-> d.entries[id].description,
   semantic_group |-> d.entries[id].semantic_group]

\* searchFts without its ORDER BY: the ids of the entries joined to a matching
\* document through fts_map and passing the WHERE clause
searchFtsIds(d, terms, currentPrompt) ==
  {m.entry_id : m \in
     {m \in d.fts_map :
        /\ \E f \in d.fts : f.rowid = m.fts_rowid /\ FtsMatch(f, terms)
        /\ m.entry_id \in EntryIds(d)
        /\ d.entries[m.entry_id].low_relevance = 0
        /\ d.entries[m.entry_id].annotation_status = "annotated"
        /\ d.entries[m.entry_id].prompt_index < currentPrompt}}

\* the orders ORDER BY fts.rank can give the matching rows: BM25 is computed by
\* SQLite from the documents' term statistics, any order is admitted here
RankOrders(S) ==
  {o \in [1..Cardinality(S) -> S] : \A i, j \in DOMAIN o : i # j => o[i] # o[j]}

\* searchFts: the rows in rank order, LIMIT ?
searchFts(d, order, limit) ==
  Take([i \in DOMAIN order |-> FtsEntry(d, order[i])], limit)

\* getPreviousSummary: row?.description ?? null
getPreviousSummary(d, promptIndex) ==
  LET S == {i \in EntryIds(d) :
              /\ d.entries[i].prompt_index = promptIndex - 1
              /\ d.entries[i].entry_type = "summary"}
  IN IF S = {} THEN Null ELSE d.entries[CHOOSE i \in S : \A j \in S : i <= j].description

\* the id of the row getPreviousSummary reads (0 when there is none)
PreviousSummaryId(d, promptIndex) ==
  LET S == {i \in EntryIds(d) :
              /\ d.entries[i].prompt_index = promptIndex - 1
              /\ d.entries[i].entry_type = "summary"}
  IN IF S = {} THEN 0 ELSE CHOOSE i \in S : \A j \in S : i <= j

\* the query of expandGroups without its id NOT IN (..) clause
expandGroupAll(d, group, excludeIds, currentPrompt) ==
  LET S == {i \in EntryIds(d) :
              /\ d.entries[i].semantic_group = group
              /\ d.entries[i].low_relevance = 0
              /\ d.entries[i].annotation_status = "annotated"
              /\ d.entries[i].prompt_index < currentPrompt}
      ids == Take(SortByPromptDesc(d, S), GROUP_EXPANSION_LIMIT)
  IN [i \in DOMAIN ids |-> FtsEntry(d, ids[i])]

\* one query of expandGroups: the rows of a group, most recent prompt first, LIMIT 3
expandGroup(d, group, excludeIds, currentPrompt) ==
  LET S == {i \in EntryIds(d) :
              /\ d.entries[i].semantic_group = group
              /\ d.entries[i].low_relevance = 0
              /\ d.entries[i].annotation_status = "annotated"
              /\ d.entries[i].prompt_index < currentPrompt
              /\ i \notin excludeIds}
      ids == Take(SortByPromptDesc(d, S), GROUP_EXPANSION_LIMIT)
  IN [i \in DOMAIN ids |-> FtsEntry(d, ids[i])]

RECURSIVE expandGroups(_, _, _, _)
\* expandGroups: one query per group, in the Set's insertion order
expandGroups(d, groups, excludeIds, currentPrompt) ==
  IF groups = <<>> THEN <<>>
  ELSE expandGroup(d, groups[1], excludeIds, currentPrompt)
         \o expandGroups(d, Tail(groups), excludeIds, currentPrompt)

\* the separator of formatEntry: the source file holds the three characters of a
\* mis-decoded em dash between two spaces; "~~~" stands for them
EntrySeparator == " ~~~ "

\* formatEntry
formatEntry(e) ==
  LET loc == IF e.file_path # Null THEN e.file_path ELSE e.entry_type
      group == IF e.semantic_group \notin {Null, ""}
               THEN " (" \o e.semantic_group \o ")" ELSE ""
  IN "[Prompt " \o NumStr(e.prompt_index) \o "]: " \o loc \o group
       \o EntrySeparator \o e.description

\* the selection state of retrieveContext
NoLines(usedChars) ==
  [lines |-> <<>>, usedChars |-> usedChars, selectedIds |-> {}, seenGroups |-> <<>>]

RECURSIVE selectLines(_, _, _, _)
\* the two budget loops of retrieveContext (lines 148-156 and 161-168): entries
\* without description are skipped, the first line over the budget ends the loop
selectLines(rows, acc, charBudget, trackGroups) ==
  IF rows = <<>> THEN acc
  ELSE LET entry == rows[1]
       IN IF entry.description \in {Null, ""}
          THEN selectLines(Tail(rows), acc, charBudget, trackGroups)
          ELSE LET line == formatEntry(entry)
               IN IF acc.usedChars + Len(line) > charBudget THEN acc
                  ELSE selectLines(Tail(rows),
                         [lines |-> Append(acc.lines, line),
                          usedChars |-> acc.usedChars + Len(line),
                          selectedIds |-> acc.selectedIds \cup {entry.id},
                          seenGroups |->
                            IF trackGroups /\ entry.semantic_group \notin {Null, ""}
                            THEN Dedup(Append(acc.seenGroups, entry.semantic_group))
                            ELSE acc.seenGroups],
                         charBudget, trackGroups)

\* the <last_activity> block
lastActivityBlock(prevSummary) ==
  "<last_activity>\n" \o prevSummary \o "\n</last_activity>"

\* wrapContext
wrapContext(sections) ==
  "<distilled_session_context>\n" \o Join(sections, "\n\n")
    \o "\n</distilled_session_context>"

\* the end of retrieveContext (lines 171-177): Null stands for null
assembleContext(sections, contextLines) ==
  LET all == IF contextLines # <<>>
             THEN Append(sections,
                    "<relevant_context>\n" \o Join(contextLines, "\n")
                      \o "\n</relevant_context>")
             ELSE sections
  IN IF all # <<>> THEN wrapContext(all) ELSE Null

\* retrieveContext run against one state of the store; order is the rank order of
\* the matching rows.  The result carries the ids of the entries whose text it holds.
retrieveContext(d, userPrompt, currentPromptIndex, tokenBudget, order) ==
  LET charBudget == tokenBudget * CHARS_PER_TOKEN
      prevSummary == getPreviousSummary(d, currentPromptIndex)
      hasPrev == prevSummary \notin {Null, ""}
      sections == IF hasPrev THEN <<lastActivityBlock(prevSummary)>> ELSE <<>>
      used0 == IF hasPrev THEN Len(lastActivityBlock(prevSummary)) ELSE 0
      summaryIds == IF hasPrev THEN {PreviousSummaryId(d, currentPromptIndex)} ELSE {}
      ftsQuery == buildFtsQuery(userPrompt)
      results == searchFts(d, order, FTS_RESULT_LIMIT)
      sel1 == selectLines(results, NoLines(used0), charBudget, TRUE)
      sel2 == IF sel1.seenGroups # <<>> /\ sel1.usedChars < charBudget
              THEN selectLines(
                     expandGroups(d, sel1.seenGroups, sel1.selectedIds, currentPromptIndex),
                     sel1, charBudget, FALSE)
              ELSE sel1
  IN IF ftsQuery = <<>>
     THEN [text |-> IF sections # <<>> THEN wrapContext(sections) ELSE Null,
           ids |-> summaryIds, lines |-> <<>>]
     ELSE IF results = <<>> /\ sections = <<>>
     THEN [text |-> Null, ids |-> {}, lines |-> <<>>]
     ELSE [text |-> assembleContext(sections, sel2.lines),
           ids |-> summaryIds \cup sel2.selectedIds,
           lines |-> sel2.lines]

(***************************************************************************)
(* insertEntry, annotateEntry and insertSummaryEntry, statement by         *)
(* statement.  A frame is one running call: its arguments, its locals and  *)
(* the statement it executes next.  step "return" = the call returned,     *)
(* step "throw" = a statement threw (the fts_map constraints).             *)
(***************************************************************************)
NoFrame ==
  [op |-> "none", step |-> "return", id |-> 0, prompt_index |-> 0,
   file_path |-> Null, entry_type |-> Null, tool_calls |-> <<>>,
   description |-> Null, tags |-> Null, semantic_group |-> Null,
   confidence |-> 0, low_relevance |-> FALSE,
   fp |-> Null, mapping |-> 0, rowid |-> 0]

\* a call insertEntry(db, promptIndex, filePath, entryType, toolCalls)
InsertEntryFrame(promptIndex, e) ==
  [NoFrame EXCEPT !.op = "insertEntry", !.step = "insert_row",
                  !.prompt_index = promptIndex, !.file_path = e.file_path,
                  !.entry_type = e.entry_type, !.tool_calls = e.tool_calls]

\* a call annotateEntry(db, id, description, tags, semanticGroup, relatedFiles,
\* confidence, lowRelevance); confidence in tenths
AnnotateEntryFrame(id, description, tags, semanticGroup, confidence, lowRelevance) ==
  [NoFrame EXCEPT !.op = "annotateEntry", !.step = "update", !.id = id,
                  !.description = description, !.tags = tags,
                  !.semantic_group = semanticGroup, !.confidence = confidence,
                  !.low_relevance = lowRelevance]

\* a call insertSummaryEntry(db, promptIndex, summary, tags)
InsertSummaryFrame(promptIndex, summary, tags) ==
  [NoFrame EXCEPT !.op = "insertSummaryEntry", !.step = "insert_row",
                  !.prompt_index = promptIndex, !.description = summary, !.tags = tags]

\* insertEntry: the statement frame f executes next, on store d
insertEntryStep(d, f) ==
  CASE f.step = "insert_row" ->
         LET d2 == StmtInsertEntryRow(d, f.prompt_index, f.file_path, f.entry_type, f.tool_calls)
         IN [db |-> d2, frame |-> [f EXCEPT !.id = LastEntryId(d2), !.step = "insert_fts"]]
    [] f.step = "insert_fts" ->
         [db |-> StmtInsertFts(d, IF f.file_path = Null THEN "" ELSE f.file_path, "", "", ""),
          frame |-> [f EXCEPT !.rowid = NextFtsRowid(d), !.step = "insert_map"]]
    [] f.step = "insert_map" ->
         IF MapInsertAllowed(d, f.rowid, f.id)
         THEN [db |-> StmtInsertMap(d, f.rowid, f.id), frame |-> [f EXCEPT !.step = "return"]]
         ELSE [db |-> d, frame |-> [f EXCEPT !.step = "throw"]]

\* annotateEntry: the statement frame f executes next, on store d
annotateEntryStep(d, f) ==
  CASE f.step = "update" ->
         [db |-> StmtUpdateAnnotated(d, f.id, f.description, f.tags, f.semantic_group,
                                     f.confidence, f.low_relevance),
          frame |-> [f EXCEPT !.step = "select_entry"]]
    [] f.step = "select_entry" ->
         [db |-> d, frame |-> [f EXCEPT !.fp = SelectFilePath(d, f.id), !.step = "select_map"]]
    [] f.step = "select_map" ->
         [db |-> d,
          frame |-> [f EXCEPT !.mapping = SelectMapping(d, f.id),
                              !.step = IF SelectMapping(d, f.id) # 0
                                       THEN "delete_fts" ELSE "insert_fts"]]
    [] f.step = "delete_fts" ->
         [db |-> StmtDeleteFts(d, f.mapping), frame |-> [f EXCEPT !.step = "delete_map"]]
    [] f.step = "delete_map" ->
         [db |-> StmtDeleteMap(d, f.id), frame |-> [f EXCEPT !.step = "insert_fts"]]
    [] f.step = "insert_fts" ->
         [db |-> StmtInsertFts(d, f.fp, f.description, f.tags, f.semantic_group),
          frame |-> [f EXCEPT !.rowid = NextFtsRowid(d), !.step = "insert_map"]]
    [] f.step = "insert_map" ->
         IF MapInsertAllowed(d, f.rowid, f.id)
         THEN [db |-> StmtInsertMap(d, f.rowid, f.id), frame |-> [f EXCEPT !.step = "return"]]
         ELSE [db |-> d, frame |-> [f EXCEPT !.step = "throw"]]

\* insertSummaryEntry: the statement frame f executes next, on store d
insertSummaryEntryStep(d, f) ==
  CASE f.step = "insert_row" ->
         LET d2 == StmtInsertSummaryRow(d, f.prompt_index, f.description, f.tags)
         IN [db |-> d2, frame |-> [f EXCEPT !.id = LastEntryId(d2), !.step = "insert_fts"]]
    [] f.step = "insert_fts" ->
         [db |-> StmtInsertFts(d, "", f.description, f.tags, ""),
          frame |-> [f EXCEPT !.rowid = NextFtsRowid(d), !.step = "insert_map"]]
    [] f.step = "insert_map" ->
         IF MapInsertAllowed(d, f.rowid, f.id)
         THEN [db |-> StmtInsertMap(d, f.rowid, f.id), frame |-> [f EXCEPT !.step = "return"]]
         ELSE [db |-> d, frame |-> [f EXCEPT !.step = "throw"]]

\* one statement of the running call
StoreStep(d, f) ==
  CASE f.op = "insertEntry" -> insertEntryStep(d, f)
    [] f.op = "annotateEntry" -> annotateEntryStep(d, f)
    [] f.op = "insertSummaryEntry" -> insertSummaryEntryStep(d, f)

RECURSIVE RunCall(_, _)
\* a whole call, run with no other process in between
RunCall(d, f) ==
  IF f.step \in {"return", "throw"} THEN [db |-> d, frame |-> f]
  ELSE LET r == StoreStep(d, f) IN RunCall(r.db, r.frame)

\* insertEntry as one call
insertEntry(d, promptIndex, e) == RunCall(d, InsertEntryFrame(promptIndex, e))

\* annotateEntry as one call
annotateEntry(d, id, description, tags, semanticGroup, confidence, lowRelevance) ==
  RunCall(d, AnnotateEntryFrame(id, description, tags, semanticGroup, confidence, lowRelevance))

\* insertSummaryEntry as one call
insertSummaryEntry(d, promptIndex, summary, tags) ==
  RunCall(d, InsertSummaryFrame(promptIndex, summary, tags))

\* getState(db, `prompt_${promptIndex}`) ?? ''
selfPromptText(d, promptIndex) ==
  IF getPromptText(d, promptIndex) = Null THEN "" ELSE getPromptText(d, promptIndex)

\* the annotateEntry call selfAnnotatePrompt makes for entry id (confidence 0.3)
SelfAnnotateFrame(d, id, userPrompt) ==
  LET entry == d.entries[id]
  IN AnnotateEntryFrame(id,
       buildDescription(entry, entry.tool_calls),
       buildTags(entry, entry.tool_calls, userPrompt),
       buildGroup(entry), 3, isLowRelevance(entry, entry.tool_calls))

(***************************************************************************)
(* Inputs from outside the program: the tool calls and prompts the host    *)
(* delivers, and the responses of the LLM provider.                        *)
(***************************************************************************)
CallRead == [tool_name |-> "Read", tool_input |-> [NoInput EXCEPT !["file_path"] = "src/a.ts"]]
CallBash == [tool_name |-> "Bash", tool_input |-> [NoInput EXCEPT !["command"] = "ls"]]

CallReadSrcB == [tool_name |-> "Read", tool_input |-> [NoInput EXCEPT !["file_path"] = "src/b.ts"]]
CallReadB == [tool_name |-> "Read", tool_input |-> [NoInput EXCEPT !["file_path"] = "src/db/b.ts"]]
CallEdit ==
  [tool_name |-> "Edit",
   tool_input |-> [NoInput EXCEPT !["file_path"] = "src/a.ts", !["old_string"] = "x",
                                  !["new_string"] = "y"]]
CallGrepFoo == [tool_name |-> "Grep", tool_input |-> [NoInput EXCEPT !["pattern"] = "foo"]]
CallGrepBar == [tool_name |-> "Grep", tool_input |-> [NoInput EXCEPT !["pattern"] = "bar"]]
CallNotebook ==
  [tool_name |-> "NotebookEdit",
   tool_input |-> [NoInput EXCEPT !["notebook_path"] = "nb.ipynb"]]
CallSearch == [tool_name |-> "WebSearch", tool_input |-> [NoInput EXCEPT !["query"] = "docs"]]
CallFetch == [tool_name |-> "WebFetch", tool_input |-> [NoInput EXCEPT !["url"] = "localhost"]]
CallTask == [tool_name |-> "Task", tool_input |-> [NoInput EXCEPT !["prompt"] = "look"]]
CallTodo == [tool_name |-> "TodoWrite", tool_input |-> NoInput]
CallPlan == [tool_name |-> "EnterPlanMode", tool_input |-> NoInput]
CallOther == [tool_name |-> "Mystery", tool_input |-> NoInput]

HostCalls == {CallRead}
Prompts == {"a.ts"}

\* the calls and prompts of the turns in self mode ("the" gives no query term)
TurnCalls == {CallRead, CallBash}
TurnPrompts == {"a.ts", "the"}

\* the calls given to the Grouper: file tools of every key field, write tools,
\* standalone tools of every class, ignored tools and a tool the code does not know
GrouperCalls ==
  {CallRead, CallReadB, CallEdit, CallGrepFoo, CallGrepBar, CallNotebook, CallBash,
   CallSearch, CallFetch, CallTask, CallTodo, CallPlan, CallOther}
Annotators == {"self", "haiku"}

NoSummary == [summary |-> Null, tags |-> Null]
NoResult == [annotations |-> <<>>, links |-> <<>>, prompt_summary |-> NoSummary]

\* one annotation of a response, with the defaults of annotate.ts:220-223 applied
LlmAnnotation(id, low) ==
  [entry_id |-> id, description |-> "note a.ts", tags |-> "a.ts,llm",
   semantic_group |-> "src", confidence |-> 5, low_relevance |-> low]

\* the parsed responses considered: annotations alone (up to MaxAnnotations, each
\* for any id of the store or one past it), a link alone, a summary alone, or an
\* annotation of the batch's first entry with a link and a summary
LlmResults(d, batch) ==
  LET ids == 1..(Len(d.entries) + 1)
      items == {LlmAnnotation(id, low) : id \in ids, low \in BOOLEAN}
      anns == UNION {[1..n -> items] : n \in 0..MaxAnnotations}
      link == <<[source_entry_id |-> Len(d.entries), target_entry_id |-> 1,
                 link_type |-> "related"]>>
      summary == [summary |-> "note a.ts", tags |-> "a.ts,llm"]
  IN {[annotations |-> a, links |-> <<>>, prompt_summary |-> NoSummary] : a \in anns}
     \cup {[annotations |-> <<>>, links |-> link, prompt_summary |-> NoSummary],
           [annotations |-> <<>>, links |-> <<>>, prompt_summary |-> summary],
           [annotations |-> <<LlmAnnotation(batch[1], FALSE)>>, links |-> link,
            prompt_summary |-> summary]}

(***************************************************************************)
(* Processes.                                                              *)
(***************************************************************************)
NoSelection == NoLines(0)

\* the object {} of a hook response
EmptyObject == [hookEventName |-> Null, additionalContext |-> Null]

\* onPrompt's result without the test of the context
HookOutputUntested(context) ==
  [hookEventName |-> "UserPromptSubmit", additionalContext |-> context]

\* onPrompt lines 39-49: the object returned for the context of retrieveContext
\* (if (context) ..: null and the empty string give {})
HookOutput(context) ==
  IF context \in {Null, ""} THEN EmptyObject
  ELSE [hookEventName |-> "UserPromptSubmit", additionalContext |-> context]

\* respond(obj): process.stdout.write(JSON.stringify(obj)), on the objects out
\* that the invocation has written so far
respond(out, obj) == Append(out, obj)

\* the dispatcher's catch with the error thrown on to the caller
catchRethrows(out) == out

\* the dispatcher's catch for a hook command: the error goes to stderr, {} to stdout
catchRespond(out) == respond(out, EmptyObject)

\* the four hook commands
HookCommands == {"session-start", "on-prompt", "on-tool", "on-stop"}

IdleHook ==
  [pc |-> "idle", cmd |-> "none", promptIndex |-> 0, plan |-> <<>>,
   pending |-> <<>>, parts |-> <<>>, phase |-> "none", frame |-> NoFrame,
   prompt |-> Null, sections |-> <<>>, sel |-> NoSelection, groups |-> <<>>,
   extra |-> <<>>, extraSeen |-> {}, out |-> Null, seen |-> {}, threw |-> FALSE,
   created |-> {}, raw |-> <<>>]

\* a handler returned (or threw into the dispatcher's catch): respond() is next
Responding(h, cmd, out, threw) ==
  [IdleHook EXCEPT !.pc = "respond", !.cmd = cmd, !.out = out, !.threw = threw,
                   !.promptIndex = h.promptIndex, !.seen = h.seen,
                   !.sections = h.sections, !.sel = h.sel]

NewAnnotator(promptIndex) ==
  [pc |-> "get_pending", promptIndex |-> promptIndex, pending |-> <<>>,
   batch |-> <<>>, result |-> NoResult, k |-> 1, annotatedIds |-> {},
   todo |-> <<>>, frame |-> NoFrame, phase |-> "none", turn |-> {}, retries |-> <<>>]

\* a process that ended keeps only how it ended
Ended(a, how) == [NewAnnotator(a.promptIndex) EXCEPT !.pc = how]

\* what is recorded of a direct call of retrieveContext and of an apply step
NoRetrieval == [done |-> FALSE, current |-> 0, budget |-> 0, length |-> 0, rows |-> {}]
\* no on-tool ran yet
NoToolInput == [session_id |-> Null, tool_name |-> Null]

NoApplied == [done |-> FALSE, summaries |-> 0, sameEntries |-> TRUE, sameLinks |-> TRUE,
              sameFts |-> TRUE, batch |-> <<>>, annotations |-> <<>>]

\* the session whose store is db, other sessions of the host, and an on-tool input
\* that has no session id
SessionId == "s1"
OtherSessions == {"s/2", "s_2"}
SessionIds == {SessionId} \cup OtherSessions

\* session_id.replace(/[^a-zA-Z0-9_-]/g, '_'), the name of the session's buffer file
\* (and of its store): tabulated over SessionIds
sanitizeId(id) == IF id = "s/2" THEN "s_2" ELSE id

\* join(BUFFER_DIR, `${sanitized}.jsonl`)
bufferPath(sessionId) == sanitizeId(sessionId)

BufferFiles == {bufferPath(id) : id \in SessionIds}

\* the buffer file of the session whose store is db
OwnBuffer == buffer[bufferPath(SessionId)]

\* the state before the first hook of a session, with a configuration file that
\* sets annotator and has for tokenBudget one of budgets (<<>>: not set, <<n>>: n)
InitWith(budgets) ==
  /\ db = EmptyDb
  /\ buffer = [f \in BufferFiles |-> <<>>]
  /\ config \in [annotator : Annotators, tokenBudget : budgets]
  /\ hook = IdleHook
  /\ ann = <<>>
  /\ aux = [stops |-> 0, calls |-> 0, stranded |-> {}, retrieved |-> NoRetrieval,
            applied |-> NoApplied, appended |-> 0, handed |-> <<>>, flushed |-> <<>>,
            born |-> {}, invoked |-> FALSE, stdout |-> <<>>, prompted |-> <<>>,
            torn |-> 0, tool |-> NoToolInput, resumed |-> FALSE]

\* the configuration does not set tokenBudget
Init == InitWith({<<>>})

(***************************************************************************)
(* session-start and on-tool (on-tool.ts).  A handler that returns         *)
(* normally with nothing to say answers {} in the same step; an answer     *)
(* with a context, or the dispatcher's catch, is the step Respond.         *)
(* aux.stdout holds the objects the latest hook invocation wrote to its    *)
(* stdout, aux.invoked tells that a hook was invoked at all.               *)
(***************************************************************************)
\* a hook invocation starts: nothing written yet
Invoked(x) == [x EXCEPT !.invoked = TRUE, !.stdout = <<>>]

\* a hook invocation that starts and answers {} in one step
Answered(x) == [x EXCEPT !.invoked = TRUE, !.stdout = respond(<<>>, EmptyObject)]

\* sessionStart: openDb and close; aux.resumed is set to resumed
SessionStartNoting(resumed) ==
  /\ hook.pc = "idle"
  /\ db' = openDb(db)
  /\ hook' = IdleHook
  /\ aux' = [Answered(aux) EXCEPT !.resumed = resumed]
  /\ UNCHANGED <<buffer, config, ann>>

SessionStart == SessionStartNoting(aux.resumed)

\* session-start of a session whose database file exists (source 'resume', or a
\* host restarted on the same session id); aux.resumed says that one ran
SessionResume ==
  /\ db.schema
  /\ SessionStartNoting(TRUE)

\* the line on-tool writes: JSON.stringify({tool_name, tool_input, ts: Date.now()});
\* the clock is the count of lines written so far; json says that JSON.parse
\* accepts the line
BufferedCall(call, ts) ==
  [tool_name |-> call.tool_name, tool_input |-> call.tool_input, ts |-> ts, json |-> TRUE]

\* a line JSON.parse rejects (an append that was cut short, a foreign write)
MalformedLine == [tool_name |-> Null, tool_input |-> NoInput, ts |-> 0, json |-> FALSE]

\* appendFileSync(bufferPath, line + '\n') written twice
appendFileSyncTwice(b, line) == Append(Append(b, line), line)

\* appendFileSync(bufferPath, line + '\n')
appendFileSync(b, line) == Append(b, line)

\* onTool for an input of session sessionId with a call out of calls: an input
\* without session id or tool name returns, else one line is appended to the
\* session's buffer file.  aux.tool is the input of the latest on-tool
OnToolFrom(sessionIds, calls, maxBuffer) ==
  /\ hook.pc = "idle"
  /\ \E sessionId \in sessionIds, call \in calls :
       IF sessionId \in {Null, ""} \/ call.tool_name \in {Null, ""}
       THEN /\ buffer' = buffer
            /\ aux' = [Answered(aux) EXCEPT
                         !.tool = [session_id |-> sessionId, tool_name |-> call.tool_name]]
       ELSE /\ Len(buffer[bufferPath(sessionId)]) < maxBuffer
            /\ buffer' = [buffer EXCEPT ![bufferPath(sessionId)] =
                            appendFileSync(@, BufferedCall(call, aux.appended + 1))]
            /\ aux' = [Answered(aux) EXCEPT
                         !.tool = [session_id |-> sessionId, tool_name |-> call.tool_name],
                         !.appended = @ + 1,
                         !.handed = [ts \in 1..(aux.appended + 1) |->
                                       IF ts <= aux.appended THEN aux.handed[ts] ELSE 0]]
  /\ hook' = IdleHook
  /\ UNCHANGED <<db, config, ann>>

\* on-tool of the session whose store is db, for a call of the host out of calls
OnToolWithin(calls, maxBuffer) == OnToolFrom({SessionId}, calls, maxBuffer)

\* an on-tool whose append is cut short: the buffer file of the session gains a
\* line that does not parse.  aux.torn counts these lines
OnToolTorn ==
  /\ hook.pc = "idle"
  /\ aux.torn < MaxTorn
  /\ Len(OwnBuffer) < NoopBuffer
  /\ buffer' = [buffer EXCEPT ![bufferPath(SessionId)] = appendFileSync(@, MalformedLine)]
  /\ aux' = [aux EXCEPT !.torn = @ + 1]
  /\ UNCHANGED <<db, config, hook, ann>>

\* on-tool, at most MaxBuffer calls between two on-stop
OnTool == OnToolWithin(HostCalls, MaxBuffer)

\* cli.ts: respond(result) after the handler returned, or the catch after it
\* threw; the process exits
Respond ==
  /\ hook.pc = "respond"
  /\ hook' = IdleHook
  /\ aux' = [aux EXCEPT !.stdout = IF hook.threw THEN catchRespond(@)
                                   ELSE respond(@, HookOutput(hook.out))]
  /\ UNCHANGED <<db, buffer, config, ann>>

\* a file or database call of the running handler throws (I/O error, SQLITE_BUSY):
\* the exception leaves through the handler's finally to the dispatcher's catch
HookThrows ==
  /\ hook.pc \in {"store", "stop_pending", "stop_spawn",
                  "prompt_summary", "prompt_search", "prompt_expand"}
  /\ hook' = Responding(hook, hook.cmd, Null, TRUE)
  /\ UNCHANGED <<db, buffer, config, ann, aux>>

\* the first file or database call of a handler throws (mkdirSync, openDb)
HookThrowsAtStart ==
  /\ hook.pc = "idle"
  /\ \E cmd \in HookCommands : hook' = Responding(IdleHook, cmd, Null, TRUE)
  /\ aux' = Invoked(aux)
  /\ UNCHANGED <<db, buffer, config, ann>>

(***************************************************************************)
(* on-stop (on-stop.ts), with flushToEntries and selfAnnotatePrompt.       *)
(***************************************************************************)
\* selfAnnotatePrompt's getPendingEntries on store d (with getState for the prompt):
\* nothing pending returns, else the first annotateEntry call is set up
SelfAnnotateBegin(h, d) ==
  LET entries == getPendingEntries(d, h.promptIndex)
  IN IF entries = <<>>
     THEN [h EXCEPT !.pc = "stop_spawn", !.frame = NoFrame, !.phase = "none"]
     ELSE [h EXCEPT !.pc = "store", !.phase = "annotate", !.pending = entries,
                    !.parts = <<>>,
                    !.frame = SelfAnnotateFrame(d, entries[1],
                                                selfPromptText(d, h.promptIndex))]

\* on-stop.ts:32: writeFileSync(bufferPath, '') skipped
writeEmptySkipped(b) == b

\* on-stop.ts:32: writeFileSync(bufferPath, ''), on the buffer b that was read
writeEmpty(b) == <<>>

\* on-stop.ts:36-43: the lines JSON.parse accepts, in file order
parseLinesKeepsAll(lines) == lines

\* on-stop.ts:36-43: the lines JSON.parse accepts, in file order
parseLines(lines) == SelectSeq(lines, LAMBDA line : line.json)

\* on-stop.ts:26-47 on the lines raw that were read: the buffer file is truncated
\* (an absent file and an empty one are both the empty sequence) and raw parsed; with no parsed call
\* on-stop returns; else the store is opened, the prompt index read and the calls
\* grouped by flushToEntries.  aux.flushed is the list handed to flushToEntries,
\* aux.handed counts per line how often it was handed
OnStopOn(raw, maxStops) ==
  /\ parseLines(raw) # <<>> => aux.stops < maxStops
  /\ buffer' = [buffer EXCEPT ![bufferPath(SessionId)] = writeEmpty(@)]
  /\ db' = IF parseLines(raw) = <<>> THEN db ELSE openDb(db)
  /\ LET promptIndex == getPromptIndex(db)
         plan == flushToEntries(parseLines(raw))
     IN hook' = IF parseLines(raw) = <<>> THEN IdleHook
                ELSE IF plan = <<>>
                THEN [IdleHook EXCEPT !.pc = "stop_pending", !.cmd = "on-stop",
                                      !.promptIndex = promptIndex]
                ELSE [IdleHook EXCEPT !.pc = "store", !.cmd = "on-stop", !.phase = "flush",
                                      !.promptIndex = promptIndex, !.plan = plan,
                                      !.frame = InsertEntryFrame(promptIndex, plan[1])]
  /\ aux' = IF parseLines(raw) = <<>> THEN Answered(aux)
            ELSE [Invoked(aux) EXCEPT !.stops = @ + 1,
                             !.flushed = parseLines(raw),
                             !.handed = [ts \in DOMAIN @ |->
                                           @[ts] + Cardinality({i \in DOMAIN raw :
                                                                  /\ raw[i].json
                                                                  /\ raw[i].ts = ts})]]
  /\ UNCHANGED <<config, ann>>

\* on-stop with its read and its truncating write in one step
OnStopReadWithin(maxStops) ==
  /\ hook.pc = "idle"
  /\ OnStopOn(OwnBuffer, maxStops)

\* on-stop, at most MaxStops of them with a buffer to flush
OnStopRead == OnStopReadWithin(MaxStops)

\* what on-stop does when the running call returned, on the store d it left
OnStopAfterCall(h, d) ==
  CASE h.phase = "flush" ->
         IF Len(h.plan) > 1
         THEN [h EXCEPT !.plan = Tail(@), !.created = @ \cup {h.frame.id},
                        !.frame = InsertEntryFrame(h.promptIndex, h.plan[2])]
         ELSE [h EXCEPT !.pc = "stop_pending", !.plan = <<>>, !.frame = NoFrame,
                        !.phase = "none", !.created = @ \cup {h.frame.id}]
    [] h.phase = "annotate" ->
         LET parts == Append(h.parts, h.frame.description)
             userPrompt == selfPromptText(d, h.promptIndex)
         IN IF Len(h.pending) > Len(parts)
            THEN [h EXCEPT !.parts = parts,
                           !.frame = SelfAnnotateFrame(d, h.pending[Len(parts) + 1], userPrompt)]
            ELSE [h EXCEPT !.parts = <<>>, !.phase = "summary",
                           !.frame = InsertSummaryFrame(h.promptIndex, selfSummary(parts),
                                       selfSummaryTags(d, h.pending, userPrompt)),
                           !.pending = <<>>]
    [] h.phase = "summary" ->
         [h EXCEPT !.pc = "stop_spawn", !.frame = NoFrame, !.phase = "none"]

\* one call of insertEntry / annotateEntry / insertSummaryEntry in on-stop; a
\* throw leaves through finally { db.close() } to the dispatcher's catch.
\* aux.born records, for a row of entries the call inserted, the prompt index the
\* session had at that time
OnStopStore ==
  /\ hook.pc = "store"
  /\ LET r == RunCall(db, hook.frame)
     IN /\ db' = r.db
        /\ hook' = CASE r.frame.step = "return" ->
                          OnStopAfterCall([hook EXCEPT !.frame = r.frame], r.db)
                     [] r.frame.step = "throw" -> Responding(hook, "on-stop", Null, TRUE)
                     [] OTHER -> [hook EXCEPT !.frame = r.frame]
        /\ aux' = IF Len(r.db.entries) > Len(db.entries)
                  THEN [aux EXCEPT !.born = @ \cup
                          {[id |-> id, turn |-> getPromptIndex(db)] :
                             id \in (Len(db.entries) + 1)..Len(r.db.entries)}]
                  ELSE aux
  /\ UNCHANGED <<buffer, config, ann>>

\* selfAnnotatePrompt: getPendingEntries
OnStopPending ==
  /\ hook.pc = "stop_pending"
  /\ hook' = SelfAnnotateBegin(hook, db)
  /\ UNCHANGED <<db, buffer, config, ann, aux>>

\* db.close(); the detached annotate process spawned in every mode
OnStopSpawnAlways ==
  /\ hook.pc = "stop_spawn"
  /\ Cardinality({i \in DOMAIN ann : ann[i].pc \notin {"done", "crashed"}}) < MaxActive
  /\ ann' = Append(ann, [NewAnnotator(hook.promptIndex) EXCEPT !.turn = hook.created])
  /\ hook' = IdleHook
  /\ aux' = [aux EXCEPT !.stdout = respond(@, EmptyObject)]
  /\ UNCHANGED <<db, buffer, config>>

\* db.close(); in haiku mode spawn the detached annotate process (turn: the
\* entries flushToEntries created in this on-stop), beside fewer than maxActive
\* annotate processes that still run
OnStopSpawnWithin(maxActive) ==
  /\ hook.pc = "stop_spawn"
  /\ config.annotator = "haiku" =>
       Cardinality({i \in DOMAIN ann : ann[i].pc \notin {"done", "crashed"}}) < maxActive
  /\ ann' = IF config.annotator = "haiku"
            THEN Append(ann, [NewAnnotator(hook.promptIndex) EXCEPT !.turn = hook.created])
            ELSE ann
  /\ hook' = IdleHook
  /\ aux' = [aux EXCEPT !.stdout = respond(@, EmptyObject)]
  /\ UNCHANGED <<db, buffer, config>>

\* on-stop's last step, beside fewer than MaxActive running annotate processes
OnStopSpawn == OnStopSpawnWithin(MaxActive)

(***************************************************************************)
(* on-prompt (on-prompt.ts) with the Retriever's queries, one per step.    *)
(* hook.seen records, for each row a query returned, the columns the row   *)
(* had in the state the query ran in.                                      *)
(***************************************************************************)
SeenRow(d, id) ==
  [id |-> id,
   prompt_index |-> d.entries[id].prompt_index,
   annotation_status |-> d.entries[id].annotation_status,
   low_relevance |-> d.entries[id].low_relevance]

\* getPromptIndex + 1, setPromptIndex, setState(prompt_<idx>); the first prompt returns {}
OnPromptBeginFrom(prompts, maxPrompts) ==
  /\ hook.pc = "idle"
  /\ getPromptIndex(db) < maxPrompts
  /\ \E prompt \in prompts :
       LET idx == getPromptIndex(db) + 1
       IN /\ db' = setPromptText(setPromptIndex(openDb(db), idx), idx, prompt)
          /\ hook' = IF idx <= 1
                     THEN [Responding(hook, "on-prompt", Null, FALSE) EXCEPT !.promptIndex = idx]
                     ELSE [IdleHook EXCEPT !.pc = "prompt_summary", !.cmd = "on-prompt",
                                           !.promptIndex = idx, !.prompt = prompt]
          /\ aux' = [Invoked(aux) EXCEPT !.prompted = Append(@, prompt)]
  /\ UNCHANGED <<buffer, config, ann>>

\* on-prompt with a prompt of Prompts
OnPromptBeginWithin(maxPrompts) == OnPromptBeginFrom(Prompts, maxPrompts)

\* on-prompt, at most MaxPrompts of them
OnPromptBegin == OnPromptBeginWithin(MaxPrompts)

\* retrieveContext lines 123-139: getPreviousSummary, buildFtsQuery
OnPromptSummary ==
  /\ hook.pc = "prompt_summary"
  /\ LET prevSummary == getPreviousSummary(db, hook.promptIndex)
         hasPrev == prevSummary \notin {Null, ""}
         sections == IF hasPrev THEN <<lastActivityBlock(prevSummary)>> ELSE <<>>
         seen == IF hasPrev
                 THEN {SeenRow(db, PreviousSummaryId(db, hook.promptIndex))} ELSE {}
         h == [hook EXCEPT !.sections = sections, !.seen = seen,
                           !.sel = NoLines(IF hasPrev THEN Len(sections[1]) ELSE 0)]
     IN hook' = IF buildFtsQuery(hook.prompt) = <<>>
                THEN Responding(h, "on-prompt",
                                IF sections # <<>> THEN wrapContext(sections) ELSE Null, FALSE)
                ELSE [h EXCEPT !.pc = "prompt_search"]
  /\ UNCHANGED <<db, buffer, config, ann, aux>>

\* retrieveContext lines 141-156 (and 171-177 when no group is expanded)
OnPromptSearch ==
  /\ hook.pc = "prompt_search"
  /\ \E order \in RankOrders(searchFtsIds(db, buildFtsQuery(hook.prompt), hook.promptIndex)) :
       LET results == searchFts(db, order, FTS_RESULT_LIMIT)
           sel == selectLines(results, hook.sel, TOKEN_BUDGET * CHARS_PER_TOKEN, TRUE)
           h == [hook EXCEPT !.sel = sel,
                             !.seen = @ \cup {SeenRow(db, id) : id \in sel.selectedIds}]
       IN hook' =
            IF results = <<>> /\ hook.sections = <<>>
            THEN Responding(h, "on-prompt", Null, FALSE)
            ELSE IF sel.seenGroups # <<>> /\ sel.usedChars < TOKEN_BUDGET * CHARS_PER_TOKEN
            THEN [h EXCEPT !.pc = "prompt_expand", !.groups = sel.seenGroups]
            ELSE Responding(h, "on-prompt", assembleContext(h.sections, sel.lines), FALSE)
  /\ UNCHANGED <<db, buffer, config, ann, aux>>

\* one query of expandGroups; after the last one, retrieveContext lines 161-177
OnPromptExpand ==
  /\ hook.pc = "prompt_expand"
  /\ LET rows == expandGroup(db, hook.groups[1], hook.sel.selectedIds, hook.promptIndex)
         extra == hook.extra \o rows
         extraSeen == hook.extraSeen \cup {SeenRow(db, rows[i].id) : i \in DOMAIN rows}
     IN hook' =
          IF Len(hook.groups) > 1
          THEN [hook EXCEPT !.groups = Tail(@), !.extra = extra, !.extraSeen = extraSeen]
          ELSE LET sel == selectLines(extra, hook.sel, TOKEN_BUDGET * CHARS_PER_TOKEN, FALSE)
                   h == [hook EXCEPT !.sel = sel, !.seen = @ \cup
                           {r \in extraSeen : r.id \in sel.selectedIds \ hook.sel.selectedIds}]
               IN Responding(h, "on-prompt", assembleContext(hook.sections, sel.lines), FALSE)
  /\ UNCHANGED <<db, buffer, config, ann, aux>>

(***************************************************************************)
(* The detached annotate process (cli.ts annotate, annotate.ts             *)
(* annotatePrompt), one SQL statement per step.                            *)
(***************************************************************************)
AnnIds == DOMAIN ann

\* the loop of annotate.ts:236-240: the entries of the batch still to be set failed
FailTodo(a) == SelectSeq(a.batch, LAMBDA id : id \notin a.annotatedIds)

\* annotate.ts:236-240 is next
AfterSummary(a) ==
  IF FailTodo(a) = <<>> THEN Ended(a, "done")
  ELSE [a EXCEPT !.pc = "fail_loop", !.todo = FailTodo(a), !.frame = NoFrame,
                 !.phase = "none"]

\* annotate.ts:232-234 is next
AfterLinks(a) ==
  IF a.result.prompt_summary # NoSummary
  THEN [a EXCEPT !.pc = "store", !.phase = "summary",
                 !.frame = InsertSummaryFrame(a.promptIndex, a.result.prompt_summary.summary,
                                              a.result.prompt_summary.tags)]
  ELSE AfterSummary(a)

\* the next annotation of annotate.ts:214-226, or line 228 after the last one
AfterAnnotation(a) ==
  IF a.k <= Len(a.result.annotations)
  THEN LET x == a.result.annotations[a.k]
       IN [a EXCEPT !.pc = "store", !.phase = "annotate",
                    !.frame = AnnotateEntryFrame(x.entry_id, x.description, x.tags,
                                x.semantic_group, x.confidence, x.low_relevance)]
  ELSE IF a.result.links # <<>>
  THEN [a EXCEPT !.pc = "links", !.k = 1, !.frame = NoFrame, !.phase = "none"]
  ELSE AfterLinks(a)

\* cli.ts openDb; annotate.ts:193 getPendingEntries
AnnGetPending(i) ==
  /\ ann[i].pc = "get_pending"
  /\ db' = openDb(db)
  /\ ann' = [ann EXCEPT ![i] = [@ EXCEPT !.pc = "get_failed",
                                         !.pending = getPendingEntries(db, ann[i].promptIndex)]]
  /\ UNCHANGED <<buffer, config, hook, aux>>

\* annotate.ts:194-197 getFailedEntries; an empty batch returns
AnnGetFailed(i) ==
  /\ ann[i].pc = "get_failed"
  /\ LET retries == getFailedEntries(db, MAX_RETRIES)
         allEntries == ann[i].pending \o retries
     IN ann' = [ann EXCEPT ![i] =
                  IF allEntries = <<>> THEN Ended(@, "done")
                  ELSE [@ EXCEPT !.pc = "mark", !.batch = allEntries, !.pending = <<>>,
                                 !.retries = retries]]
  /\ UNCHANGED <<db, buffer, config, hook, aux>>

\* annotate.ts:199 markAnnotating (201-203 read the prompt and the history for the message)
AnnMark(i) ==
  /\ ann[i].pc = "mark"
  /\ db' = markAnnotating(db, ann[i].batch)
  /\ ann' = [ann EXCEPT ![i] = [@ EXCEPT !.pc = "call"]]
  /\ UNCHANGED <<buffer, config, hook, aux>>

\* annotate.ts:206-212: the provider answers and the answer parses
AnnCallReturns(i) ==
  /\ ann[i].pc = "call"
  /\ \E result \in LlmResults(db, ann[i].batch) :
       ann' = [ann EXCEPT ![i] = AfterAnnotation([@ EXCEPT !.result = result, !.k = 1])]
  /\ UNCHANGED <<db, buffer, config, hook, aux>>

\* annotate.ts:206-210: callLlm or JSON.parse throws
AnnCallThrows(i) ==
  /\ ann[i].pc = "call"
  /\ ann' = [ann EXCEPT ![i] = [@ EXCEPT !.pc = "catch"]]
  /\ UNCHANGED <<db, buffer, config, hook, aux>>

\* annotate.ts:212-245 from the point process a is at, on store d: one statement of
\* annotateEntry / insertSummaryEntry (a throw enters the catch), one insertLink,
\* one UPDATE .. 'failed' WHERE id = ? of the loop at 236-240, or the catch's
\* markFailed(db, promptIndex) (the error is logged, not rethrown)
applyStep(d, a) ==
  CASE a.pc = "store" ->
         LET r == StoreStep(d, a.frame)
         IN [db |-> r.db,
             a |-> CASE r.frame.step = "throw" ->
                          [a EXCEPT !.pc = "catch", !.frame = NoFrame, !.phase = "none"]
                     [] r.frame.step = "return" /\ a.phase = "annotate" ->
                          AfterAnnotation([a EXCEPT !.annotatedIds = @ \cup {a.frame.id},
                                                    !.k = @ + 1])
                     [] r.frame.step = "return" /\ a.phase = "summary" -> AfterSummary(a)
                     [] OTHER -> [a EXCEPT !.frame = r.frame]]
    [] a.pc = "links" ->
         LET link == a.result.links[a.k]
         IN [db |-> insertLink(d, link.source_entry_id, link.target_entry_id, link.link_type),
             a |-> IF a.k < Len(a.result.links) THEN [a EXCEPT !.k = @ + 1]
                   ELSE AfterLinks(a)]
    [] a.pc = "fail_loop" ->
         [db |-> StmtSetFailed(d, a.todo[1]),
          a |-> IF Len(a.todo) > 1 THEN [a EXCEPT !.todo = Tail(@)]
                ELSE Ended(a, "done")]
    [] a.pc = "catch" ->
         [db |-> markFailed(d, a.promptIndex), a |-> Ended(a, "done")]

\* one statement of annotateEntry / insertSummaryEntry in the apply step
AnnStore(i) ==
  /\ ann[i].pc = "store"
  /\ db' = applyStep(db, ann[i]).db
  /\ ann' = [ann EXCEPT ![i] = applyStep(db, ann[i]).a]
  /\ UNCHANGED <<buffer, config, hook, aux>>

\* annotate.ts:228-230: one insertLink
AnnLink(i) ==
  /\ ann[i].pc = "links"
  /\ db' = applyStep(db, ann[i]).db
  /\ ann' = [ann EXCEPT ![i] = applyStep(db, ann[i]).a]
  /\ UNCHANGED <<buffer, config, hook, aux>>

\* annotate.ts:236-240: one UPDATE .. 'failed' WHERE id = ?
AnnFailLoop(i) ==
  /\ ann[i].pc = "fail_loop"
  /\ db' = applyStep(db, ann[i]).db
  /\ ann' = [ann EXCEPT ![i] = applyStep(db, ann[i]).a]
  /\ UNCHANGED <<buffer, config, hook, aux>>

\* annotate.ts:241-245: markFailed(db, promptIndex)
AnnCatch(i) ==
  /\ ann[i].pc = "catch"
  /\ db' = applyStep(db, ann[i]).db
  /\ ann' = [ann EXCEPT ![i] = applyStep(db, ann[i]).a]
  /\ UNCHANGED <<buffer, config, hook, aux>>

\* the detached process is killed or crashes: it stops wherever it is
AnnCrash(i) ==
  /\ ann[i].pc \in {"call", "store", "links", "fail_loop", "catch"}
  /\ ann' = [ann EXCEPT ![i] = Ended(@, "crashed")]
  /\ aux' = [aux EXCEPT !.stranded = @ \cup
               {[id |-> id, promptIndex |-> ann[i].promptIndex] :
                  id \in {x \in Range(ann[i].batch) \cap EntryIds(db) :
                            db.entries[x].annotation_status # "annotated"}}]
  /\ UNCHANGED <<db, buffer, config, hook>>

Annotate(i) ==
  \/ AnnGetPending(i)
  \/ AnnGetFailed(i)
  \/ AnnMark(i)
  \/ AnnCallReturns(i)
  \/ AnnCallThrows(i)
  \/ AnnStore(i)
  \/ AnnLink(i)
  \/ AnnFailLoop(i)
  \/ AnnCatch(i)

Next ==
  \/ SessionStart
  \/ OnTool
  \/ Respond
  \/ OnStopRead
  \/ OnStopStore
  \/ OnStopPending
  \/ OnStopSpawn
  \/ OnPromptBegin
  \/ OnPromptSummary
  \/ OnPromptSearch
  \/ OnPromptExpand
  \/ \E i \in AnnIds : Annotate(i)

Spec == Init /\ [][Next]_vars

(***************************************************************************)
(* The hooks in self mode: on-stop never spawns, the hook process is the   *)
(* only process.                                                           *)
(***************************************************************************)
InitSelf == Init /\ config.annotator = "self"

NextSelf ==
  \/ SessionStart
  \/ OnTool
  \/ Respond
  \/ OnStopRead
  \/ OnStopStore
  \/ OnStopPending
  \/ OnStopSpawn
  \/ OnPromptBegin
  \/ OnPromptSummary
  \/ OnPromptSearch
  \/ OnPromptExpand

SpecSelf == InitSelf /\ [][NextSelf]_vars

(***************************************************************************)
(* The hooks in self mode over turns whose calls and prompts differ: a     *)
(* Read or a Bash call per on-tool, and a prompt with or without a search  *)
(* term.                                                                   *)
(***************************************************************************)
InitTurn == Init /\ config.annotator = "self"

NextTurn ==
  \/ SessionStart
  \/ OnToolWithin(TurnCalls, MaxBuffer)
  \/ Respond
  \/ OnStopRead
  \/ OnStopStore
  \/ OnStopPending
  \/ OnStopSpawn
  \/ OnPromptBeginFrom(TurnPrompts, MaxPrompts)
  \/ OnPromptSummary
  \/ OnPromptSearch
  \/ OnPromptExpand

SpecTurn == InitTurn /\ [][NextTurn]_vars

(***************************************************************************)
(* on-prompt after on-prompt in self mode: prompts with and without a      *)
(* search term, and Read calls flushed by on-stop in between.              *)
(***************************************************************************)
InitBook == Init /\ config.annotator = "self"

NextBook ==
  \/ OnToolWithin(HostCalls, MaxBuffer)
  \/ Respond
  \/ OnStopReadWithin(BookStops)
  \/ OnStopStore
  \/ OnStopPending
  \/ OnStopSpawn
  \/ OnPromptBeginFrom(TurnPrompts, BookPrompts)
  \/ OnPromptSummary
  \/ OnPromptSearch
  \/ OnPromptExpand

SpecBook == InitBook /\ [][NextBook]_vars

(***************************************************************************)
(* on-prompt under a configuration that sets tokenBudget or leaves it out: *)
(* the hooks of SpecBook in self mode.                                     *)
(***************************************************************************)
InitBudget == InitWith({<<>>, <<SmallBudget>>}) /\ config.annotator = "self"

NextBudget == NextBook

SpecBudget == InitBudget /\ [][NextBudget]_vars

(***************************************************************************)
(* Sessions that are resumed: in self mode, session-start runs on a new    *)
(* session and again at any later point between the other hooks.           *)
(***************************************************************************)
InitResume == Init /\ config.annotator = "self"

NextResume ==
  \/ (~db.schema /\ SessionStart)
  \/ SessionResume
  \/ OnTool
  \/ Respond
  \/ OnStopRead
  \/ OnStopStore
  \/ OnStopPending
  \/ OnStopSpawn
  \/ OnPromptBegin
  \/ OnPromptSummary
  \/ OnPromptSearch
  \/ OnPromptExpand

SpecResume == InitResume /\ [][NextResume]_vars

(***************************************************************************)
(* A semantic group with more members than one expansion takes: in self    *)
(* mode the first turn reads src/a.ts, every later on-stop flushes reads   *)
(* of src/b.ts (same group "src", no term of the prompt "a.ts"), and       *)
(* on-prompt retrieves at any point.                                       *)
(***************************************************************************)
InitExpand == Init /\ config.annotator = "self"

NextExpand ==
  \/ (aux.stops = 0 /\ OnToolWithin({CallRead}, MaxBuffer))
  \/ (aux.stops > 0 /\ OnToolWithin({CallReadSrcB}, MaxBuffer))
  \/ Respond
  \/ OnStopReadWithin(ExpandStops)
  \/ OnStopStore
  \/ OnStopPending
  \/ OnStopSpawn
  \/ OnPromptBegin
  \/ OnPromptSummary
  \/ OnPromptSearch
  \/ OnPromptExpand

SpecExpand == InitExpand /\ [][NextExpand]_vars

(***************************************************************************)
(* The hooks with handlers that throw: any file or database call of a      *)
(* running handler may fail.  No annotate process takes a step.            *)
(***************************************************************************)
InitFault == Init

NextFault ==
  \/ SessionStart
  \/ OnTool
  \/ Respond
  \/ OnStopRead
  \/ OnStopStore
  \/ OnStopPending
  \/ OnStopSpawn
  \/ OnPromptBegin
  \/ OnPromptSummary
  \/ OnPromptSearch
  \/ OnPromptExpand
  \/ HookThrows
  \/ HookThrowsAtStart

SpecFault == InitFault /\ [][NextFault]_vars

(***************************************************************************)
(* The Grouper on the calls of one turn: a new session in self mode, the   *)
(* host's calls buffered by on-tool, then the one on-stop that flushes     *)
(* them.                                                                   *)
(***************************************************************************)
InitGrouper == Init /\ config.annotator = "self"

NextGrouper ==
  \/ (aux.stops = 0 /\ OnToolWithin(GrouperCalls, GroupBuffer))
  \/ OnStopRead
  \/ OnStopStore
  \/ OnStopPending
  \/ OnStopSpawn

SpecGrouper == InitGrouper /\ [][NextGrouper]_vars

(***************************************************************************)
(* The Grouper run twice on one list: after the on-stop of the first turn  *)
(* the host makes the calls of that turn again, in the same order, and the *)
(* second on-stop flushes them.                                            *)
(***************************************************************************)
InitReplay == Init /\ config.annotator = "self"

\* the call of a buffered line, as the host sent it
CallOf(line) == [tool_name |-> line.tool_name, tool_input |-> line.tool_input]

\* on-tool of the second turn: the next call of the first turn's list
OnToolReplay ==
  /\ aux.stops = 1
  /\ Len(OwnBuffer) < Len(aux.flushed)
  /\ OnToolWithin({CallOf(aux.flushed[Len(OwnBuffer) + 1])}, GroupBuffer)

\* the second on-stop, once the whole list was repeated
OnStopReplay ==
  /\ aux.stops = 1
  /\ Len(OwnBuffer) = Len(aux.flushed)
  /\ OnStopRead

NextReplay ==
  \/ (aux.stops = 0 /\ OnToolWithin(GrouperCalls, GroupBuffer))
  \/ (aux.stops = 0 /\ OnStopRead)
  \/ OnToolReplay
  \/ OnStopReplay
  \/ OnStopStore
  \/ OnStopPending
  \/ OnStopSpawn

SpecReplay == InitReplay /\ [][NextReplay]_vars

(***************************************************************************)
(* on-stop on buffers that hold nothing to flush: in both annotator modes, *)
(* on-tool appends lines that parse and lines that do not, and on-stop     *)
(* reads whatever the file holds.                                          *)
(***************************************************************************)
InitNoop == Init

NextNoop ==
  \/ OnToolWithin(HostCalls, NoopBuffer)
  \/ OnToolTorn
  \/ OnStopRead
  \/ OnStopStore
  \/ OnStopPending
  \/ OnStopSpawn

SpecNoop == InitNoop /\ [][NextNoop]_vars

(***************************************************************************)
(* on-tool as an async hook (README, PostToolUse "async": true): the host   *)
(* does not wait for on-tool, so its append may run while on-stop is        *)
(* between readFileSync (on-stop.ts:31) and writeFileSync (on-stop.ts:32).  *)
(***************************************************************************)
\* on-stop.ts:26-31: without a buffer file on-stop returns (the file exists from
\* the session's first append on: on-stop truncates it and nothing removes it);
\* else the file is read; hook.raw is what was read
OnStopReadFile ==
  /\ hook.pc = "idle"
  /\ IF aux.appended = 0
     THEN /\ hook' = IdleHook
          /\ aux' = Answered(aux)
     ELSE /\ hook' = [IdleHook EXCEPT !.pc = "truncate", !.cmd = "on-stop", !.raw = OwnBuffer]
          /\ aux' = Invoked(aux)
  /\ UNCHANGED <<db, buffer, config, ann>>

\* on-stop.ts:32-47: the truncating write and the rest of on-stop on what was read
OnStopTruncate ==
  /\ hook.pc = "truncate"
  /\ OnStopOn(hook.raw, AsyncStops)

\* on-tool.ts:11-32 in a process of its own while on-stop is between its read and
\* its write: one line is appended to the session's buffer file
OnToolAsync ==
  /\ hook.pc = "truncate"
  /\ aux.appended < AsyncCalls
  /\ Len(OwnBuffer) < AsyncBuffer
  /\ \E call \in HostCalls :
       /\ buffer' = [buffer EXCEPT ![bufferPath(SessionId)] =
                       appendFileSync(@, BufferedCall(call, aux.appended + 1))]
       /\ aux' = [aux EXCEPT
                    !.tool = [session_id |-> SessionId, tool_name |-> call.tool_name],
                    !.appended = @ + 1,
                    !.handed = [ts \in 1..(aux.appended + 1) |->
                                  IF ts <= aux.appended THEN aux.handed[ts] ELSE 0]]
  /\ UNCHANGED <<db, config, hook, ann>>

InitAsync == Init /\ config.annotator = "self"

NextAsync ==
  \/ OnToolWithin(HostCalls, AsyncBuffer)
  \/ OnToolAsync
  \/ OnStopReadFile
  \/ OnStopTruncate
  \/ OnStopStore
  \/ OnStopPending
  \/ OnStopSpawn

SpecAsync == InitAsync /\ [][NextAsync]_vars

(***************************************************************************)
(* Annotate runs that overlap: on-stop spawns its detached annotate process *)
(* while the one of an earlier on-stop still waits for the provider (every  *)
(* LLM call ends by throwing).                                              *)
(***************************************************************************)
InitOverlap == Init /\ config.annotator = "haiku"

NextOverlap ==
  \/ OnTool
  \/ OnStopReadWithin(OverlapStops)
  \/ OnStopStore
  \/ OnStopPending
  \/ OnStopSpawnWithin(OverlapActive)
  \/ OnPromptBeginWithin(OverlapPrompts)
  \/ Respond
  \/ \E i \in AnnIds : AnnGetPending(i)
  \/ \E i \in AnnIds : AnnGetFailed(i)
  \/ \E i \in AnnIds : AnnMark(i)
  \/ \E i \in AnnIds : AnnCallThrows(i)
  \/ \E i \in AnnIds : AnnCatch(i)

SpecOverlap == InitOverlap /\ [][NextOverlap]_vars

(***************************************************************************)
(* on-tool among several sessions: the host runs on-tool for the session   *)
(* whose store is db and for other sessions, with and without a session id *)
(* and a tool name, between the session's other hooks.                     *)
(***************************************************************************)
\* an on-tool input without tool name
CallNameless == [tool_name |-> "", tool_input |-> NoInput]
FrameCalls == {CallRead, CallNameless}

InitFrame == Init

NextFrame ==
  \/ OnToolFrom(SessionIds \cup {""}, FrameCalls, MaxBuffer)
  \/ SessionStart
  \/ OnStopRead
  \/ OnStopStore
  \/ OnStopPending
  \/ OnStopSpawn

SpecFrame == InitFrame /\ [][NextFrame]_vars

(***************************************************************************)
(* The hooks with a provider that is down and annotate processes that may  *)
(* be killed: every LLM call throws.  Three on-stop and a change of prompt *)
(* index, so that a run meets entries of an earlier prompt index.          *)
(***************************************************************************)
InitRetry == Init /\ config.annotator = "haiku"

NextRetry ==
  \/ OnTool
  \/ OnStopReadWithin(RetryStops)
  \/ OnStopStore
  \/ OnStopPending
  \/ OnStopSpawn
  \/ OnPromptBeginWithin(RetryPrompts)
  \/ Respond
  \/ \E i \in AnnIds : AnnGetPending(i)
  \/ \E i \in AnnIds : AnnGetFailed(i)
  \/ \E i \in AnnIds : AnnMark(i)
  \/ \E i \in AnnIds : AnnCallThrows(i)
  \/ \E i \in AnnIds : AnnCatch(i)
  \/ \E i \in AnnIds : AnnCrash(i)

SpecRetry == InitRetry /\ [][NextRetry]_vars

(***************************************************************************)
(* The store API, the retriever and the apply step of annotatePrompt called *)
(* one after the other by a single process, each call run whole: the store *)
(* any sequence of completed calls builds.                                 *)
(***************************************************************************)
RECURSIVE runApply(_, _)
\* annotate.ts:212-245 run to its end from the point process a is at
runApply(d, a) ==
  IF a.pc = "done" THEN d
  ELSE LET r == applyStep(d, a) IN runApply(r.db, r.a)

\* annotate.ts:193-195: the batch of an annotate run
annotateBatch(d, promptIndex) ==
  getPendingEntries(d, promptIndex) \o getFailedEntries(d, MAX_RETRIES)

\* annotate.ts:212-245 with the parsed response given
applyResult(d, promptIndex, batch, result) ==
  runApply(d, AfterAnnotation([NewAnnotator(promptIndex) EXCEPT
                                 !.batch = batch, !.result = result, !.k = 1]))

\* the columns of the FTS documents, without their rowids
FtsContents(d) ==
  {[file_path |-> f.file_path, description |-> f.description, tags |-> f.tags,
    semantic_group |-> f.semantic_group] : f \in d.fts}

\* the entries one insertEntry call of flushToEntries can store
StoreCalls == {CallRead, CallBash}

\* one more direct call changed the store: what was recorded of the calls before
\* it is forgotten
Called(x) ==
  [x EXCEPT !.calls = @ + 1, !.retrieved = NoRetrieval, !.applied = NoApplied]

\* setPromptIndex and setState(prompt_<idx>) as on-prompt calls them
StorePrompt ==
  /\ aux.calls < MaxCalls
  /\ getPromptIndex(db) < MaxPrompts
  /\ \E prompt \in Prompts :
       LET idx == getPromptIndex(db) + 1
       IN db' = setPromptText(setPromptIndex(openDb(db), idx), idx, prompt)
  /\ aux' = Called(aux)
  /\ UNCHANGED <<buffer, config, hook, ann>>

\* insertEntry with the arguments flushToEntries gives it
StoreInsertEntry ==
  /\ aux.calls < MaxCalls
  /\ Len(db.entries) < MaxEntries
  /\ \E call \in StoreCalls :
       db' = insertEntry(openDb(db), getPromptIndex(db), flushToEntries(<<call>>)[1]).db
  /\ aux' = Called(aux)
  /\ UNCHANGED <<buffer, config, hook, ann>>

\* annotateEntry with the arguments selfAnnotatePrompt gives it (an entry of the
\* store) or with those of an LLM annotation (any id)
StoreAnnotateEntry ==
  /\ aux.calls < MaxCalls
  /\ \/ \E id \in {i \in EntryIds(db) : db.entries[i].entry_type # "summary"} :
          db' = RunCall(db, SelfAnnotateFrame(db, id,
                              selfPromptText(db, db.entries[id].prompt_index))).db
     \/ \E id \in 1..(Len(db.entries) + 1), low \in BOOLEAN :
          LET x == LlmAnnotation(id, low)
          IN db' = annotateEntry(openDb(db), x.entry_id, x.description, x.tags,
                                 x.semantic_group, x.confidence, x.low_relevance).db
  /\ aux' = Called(aux)
  /\ UNCHANGED <<buffer, config, hook, ann>>

\* insertSummaryEntry with the summary selfAnnotatePrompt builds of the entries
\* of the current prompt
StoreInsertSummary ==
  /\ aux.calls < MaxCalls
  /\ Len(db.entries) < MaxEntries
  /\ LET ids == SeqOfSet({i \in EntryIds(db) :
                            /\ db.entries[i].prompt_index = getPromptIndex(db)
                            /\ db.entries[i].entry_type # "summary"
                            /\ db.entries[i].description # Null})
         parts == [i \in DOMAIN ids |-> db.entries[ids[i]].description]
     IN /\ ids # <<>>
        /\ db' = insertSummaryEntry(openDb(db), getPromptIndex(db), selfSummary(parts),
                   selfSummaryTags(db, ids, selfPromptText(db, getPromptIndex(db)))).db
  /\ aux' = Called(aux)
  /\ UNCHANGED <<buffer, config, hook, ann>>

\* retrieveContext(db, userPrompt, currentPromptIndex, tokenBudget)
StoreRetrieve ==
  /\ \E userPrompt \in Prompts \cup {"the"}, current \in 1..(getPromptIndex(db) + 1),
        tokenBudget \in {SmallBudget, TOKEN_BUDGET} :
       \E order \in RankOrders(searchFtsIds(db, buildFtsQuery(userPrompt), current)) :
         LET r == retrieveContext(db, userPrompt, current, tokenBudget, order)
         IN aux' = [aux EXCEPT !.applied = NoApplied, !.retrieved =
                      [done |-> TRUE, current |-> current, budget |-> tokenBudget,
                       length |-> IF r.text = Null THEN 0 ELSE Len(r.text),
                       rows |-> {SeenRow(db, id) : id \in r.ids}]]
  /\ UNCHANGED <<db, buffer, config, hook, ann>>

\* the parsed responses given to a whole run: those of LlmResults, and one that
\* annotates an id one past the last row and carries a prompt summary
StoreResults(d, batch) ==
  LlmResults(d, batch)
  \cup {[annotations |-> <<LlmAnnotation(Len(d.entries) + 1, FALSE)>>, links |-> <<>>,
         prompt_summary |-> [summary |-> "note a.ts", tags |-> "a.ts,llm"]]}

\* annotate.ts:193-245 with a response that parses; the batch and the annotations
\* of the run are recorded, and what the same response applied to the same batch
\* once more would change
StoreApplyFrom(more) ==
  /\ aux.calls < MaxCalls
  /\ LET promptIndex == getPromptIndex(db)
         batch == annotateBatch(db, promptIndex)
     IN /\ batch # <<>>
        /\ \E result \in StoreResults(db, batch) \cup more :
             LET once == applyResult(markAnnotating(db, batch), promptIndex, batch, result)
                 twice == applyResult(once, promptIndex, batch, result)
             IN /\ Len(once.entries) <= MaxEntries
                /\ db' = once
                /\ aux' = [Called(aux) EXCEPT !.applied =
                     [done |-> TRUE,
                      summaries |-> IF result.prompt_summary = NoSummary THEN 0 ELSE 1,
                      sameEntries |-> twice.entries = once.entries,
                      sameLinks |-> twice.links = once.links,
                      sameFts |-> /\ FtsContents(twice) = FtsContents(once)
                                  /\ Cardinality(twice.fts) = Cardinality(once.fts),
                      batch |-> batch,
                      annotations |-> result.annotations]]
  /\ UNCHANGED <<buffer, config, hook, ann>>

\* a run of annotatePrompt with a response of StoreResults
StoreApply == StoreApplyFrom({})

NextStore ==
  \/ StorePrompt
  \/ StoreInsertEntry
  \/ StoreAnnotateEntry
  \/ StoreInsertSummary
  \/ StoreRetrieve
  \/ StoreApply

\* the apply step belongs to the haiku mode
InitStore == Init /\ config.annotator = "haiku"

SpecStore == InitStore /\ [][NextStore]_vars

(***************************************************************************)
(* annotatePrompt with responses whose links the provider chose freely:    *)
(* annotate.ts:228-230 hands source_entry_id, target_entry_id and          *)
(* link_type of every link of the parsed response to insertLink.           *)
(***************************************************************************)
\* responses that carry links only: a link to an id one past the last row, a
\* link between rows with a type the prompt does not list, and one link twice
LinkResults(d) ==
  LET last == Len(d.entries)
      link(s, t, type) == [source_entry_id |-> s, target_entry_id |-> t, link_type |-> type]
  IN {[annotations |-> <<>>, links |-> links, prompt_summary |-> NoSummary] :
        links \in {<<link(last, last + 1, "related")>>,
                   <<link(last, 1, "blocks")>>,
                   <<link(last, 1, "extends"), link(last, 1, "extends")>>}}

InitLinks == Init /\ config.annotator = "haiku"

NextLinks ==
  \/ StorePrompt
  \/ StoreInsertEntry
  \/ StoreApplyFrom(LinkResults(db))

SpecLinks == InitLinks /\ [][NextLinks]_vars

(***************************************************************************)
(* Properties.                                                             *)
(***************************************************************************)
\* a column as FTS5 stores it: NULL is indexed as the empty text
Txt(x) == IF x = Null THEN "" ELSE x

\* entry id has its fts_map row and the FTS document of that row holds the
\* entry's columns
EntryIndexed(d, id) ==
  \E m \in d.fts_map :
    /\ m.entry_id = id
    /\ \E f \in d.fts :
         /\ f.rowid = m.fts_rowid
         /\ f.file_path = Txt(d.entries[id].file_path)
         /\ f.description = Txt(d.entries[id].description)
         /\ f.tags = Txt(d.entries[id].tags)
         /\ f.semantic_group = Txt(d.entries[id].semantic_group)

\* C2 (atomic re-indexing): when the on-prompt retriever runs its FTS query,
\* every entry has its map row and an FTS document that matches its entries row
C2_AtomicReindexing ==
  hook.pc = "prompt_search" => \A id \in EntryIds(db) : EntryIndexed(db, id)

\* C3 (retrieval safety): every entry whose text is in the context on-prompt
\* answers with was, when its query ran, of an earlier prompt index, annotated and
\* not of low relevance
C3_RetrievalSafety ==
  (hook.pc = "respond" /\ hook.cmd = "on-prompt") =>
    \A r \in hook.seen :
      /\ r.prompt_index < hook.promptIndex
      /\ r.annotation_status = "annotated"
      /\ r.low_relevance = 0

\* C4 (monotone prompt index): the stored prompt_index is 0 for a new session,
\* every on-prompt adds exactly 1 to it and no other step changes it
C4_MonotonePromptIndex ==
  /\ getPromptIndex(db) = 0
  /\ [][IF hook.pc = "idle" /\ hook'.cmd = "on-prompt"
        THEN getPromptIndex(db') = getPromptIndex(db) + 1
        ELSE getPromptIndex(db') = getPromptIndex(db)]_vars

\* two on-prompt ran and on-stop stored entries in between
C4_Witness ==
  /\ getPromptIndex(db) = 2
  /\ \E id \in EntryIds(db) : db.entries[id].prompt_index = 1

\* C5 (status closure): in self mode, once on-stop completed, no entry of the
\* current prompt index is pending
C5_StatusClosure ==
  (config.annotator = "self" /\ hook.pc = "idle") =>
    \A id \in EntryIds(db) :
      db.entries[id].prompt_index = getPromptIndex(db) =>
        db.entries[id].annotation_status # "pending"

\* an on-stop in self mode completed and the entry it inserted is annotated
C5_Witness ==
  /\ config.annotator = "self"
  /\ hook.pc = "idle"
  /\ \E id \in EntryIds(db) :
       /\ db.entries[id].entry_type # "summary"
       /\ db.entries[id].prompt_index = getPromptIndex(db)
       /\ db.entries[id].annotation_status = "annotated"

\* the status changes the annotation state machine allows
StatusSteps ==
  {<<"pending", "annotating">>, <<"pending", "annotated">>,
   <<"annotating", "annotated">>, <<"pending", "failed">>,
   <<"annotating", "failed">>, <<"failed", "annotating">>}

\* C8 (annotation status is monotonic): a non-summary entry's status changes only
\* along StatusSteps; an entry that is annotated stays annotated
C8_StatusMonotonic ==
  [][\A id \in EntryIds(db) :
       db.entries[id].entry_type # "summary" =>
         \/ db'.entries[id].annotation_status = db.entries[id].annotation_status
         \/ <<db.entries[id].annotation_status, db'.entries[id].annotation_status>>
              \in StatusSteps]_vars

\* at most one fts_map row for entry id, its document exists, and every map row
\* and every document belongs to an entry of the store
FtsBijection(d) ==
  /\ \A id \in EntryIds(d) :
       /\ Cardinality({m \in d.fts_map : m.entry_id = id}) = 1
       /\ \E m \in d.fts_map : m.entry_id = id /\ \E f \in d.fts : f.rowid = m.fts_rowid
  /\ \A m \in d.fts_map : m.entry_id \in EntryIds(d)
  /\ \A f \in d.fts : \E m \in d.fts_map : m.fts_rowid = f.rowid
  /\ Cardinality(d.fts) = Len(d.entries)

\* C1 (FTS bijection at rest): after any sequence of completed insertEntry,
\* annotateEntry (any id) and insertSummaryEntry calls, every entries row has one
\* fts_map row and one FTS document, and there is no orphan map row or document
C1_FtsBijection == FtsBijection(db)

\* C6 (annotation idempotence): applying the same response to the same batch a
\* second time leaves the entries rows, the links and the FTS contents as they
\* were after the first time
C6_ApplyIdempotent ==
  aux.applied.done =>
    aux.applied.sameEntries /\ aux.applied.sameLinks /\ aux.applied.sameFts

\* C7 (budget respect): the string retrieveContext returns has at most
\* tokenBudget * CHARS_PER_TOKEN characters
C7_BudgetRespect ==
  aux.retrieved.done => aux.retrieved.length <= aux.retrieved.budget * CHARS_PER_TOKEN

\* C9 (provider failure marks the whole batch failed): when a run whose LLM call
\* threw returns, every entry of its batch is failed unless it is annotated
C9_BatchFailed ==
  [][\A i \in DOMAIN ann :
       (ann[i].pc = "catch" /\ ann'[i].pc = "done") =>
         \A id \in Range(ann[i].batch) :
           db'.entries[id].annotation_status \in {"failed", "annotated"}]_vars

\* C10 (crash recovery): an entry a killed run left un-annotated is in the batch
\* of every run of a later prompt index, as long as it is not annotated
C10_CrashRecovery ==
  [][\A i \in DOMAIN ann :
       (ann[i].pc = "get_failed" /\ ann'[i].pc # "get_failed") =>
         \A s \in aux.stranded :
           (ann[i].promptIndex > s.promptIndex
              /\ db.entries[s.id].annotation_status # "annotated")
             => s.id \in Range(ann'[i].batch)]_vars

\* C11 (partial LLM result): after an annotate run whose provider call and parse
\* succeeded, every entry of the batch that the response annotates is annotated
\* with the returned fields and every other entry of the batch is failed (so none
\* is pending or annotating)
C11_PartialResult ==
  aux.applied.done =>
    \A id \in Range(aux.applied.batch) :
      LET anns == aux.applied.annotations
          hits == {i \in DOMAIN anns : anns[i].entry_id = id}
      IN IF hits # {}
         THEN LET x == anns[Max(hits)]
              IN /\ db.entries[id].annotation_status = "annotated"
                 /\ db.entries[id].description = x.description
                 /\ db.entries[id].tags = x.tags
                 /\ db.entries[id].semantic_group = x.semantic_group
                 /\ db.entries[id].low_relevance = (IF x.low_relevance THEN 1 ELSE 0)
         ELSE db.entries[id].annotation_status = "failed"

\* C12 (LLM upgrade of the turn's entries): the batch of the annotate run that
\* on-stop spawned holds every entry that on-stop created
C12_LlmUpgrade ==
  [][\A i \in DOMAIN ann :
       (ann[i].pc = "get_failed" /\ ann'[i].pc # "get_failed") =>
         ann[i].turn \subseteq Range(ann'[i].batch)]_vars

\* C13 (LLM failure recovery): when the run of a turn returns after its provider
\* call failed, the entries on-stop created in that turn are failed; and the batch
\* of a run holds the failed entries of the store (the first MAX_RETRIES of them)
C13_FailureRecovery ==
  [][\A i \in DOMAIN ann :
       /\ (ann[i].pc = "catch" /\ ann'[i].pc = "done") =>
            \A id \in ann[i].turn : db'.entries[id].annotation_status = "failed"
       /\ (ann[i].pc = "get_failed" /\ ann'[i].pc = "mark") =>
            Range(getFailedEntries(db, MAX_RETRIES)) \subseteq Range(ann'[i].batch)]_vars

\* the summary entries of prompt index p
SummariesOf(d, p) ==
  {id \in EntryIds(d) :
     d.entries[id].entry_type = "summary" /\ d.entries[id].prompt_index = p}

\* C14 (one summary per prompt): there is at most one summary entry for each
\* prompt index
C14_OneSummaryPerPrompt ==
  \A p \in 0..getPromptIndex(db) : Cardinality(SummariesOf(db, p)) <= 1

\* C15 (buffer drain is exactly-once): a line on-tool appended is in the buffer and
\* was handed to the Grouper by no on-stop, or it is not in the buffer and was
\* handed exactly once; the buffer is empty from on-stop's read to its return
C15_DrainExactlyOnce ==
  /\ \A ts \in 1..aux.appended :
       aux.handed[ts] = (IF \E i \in DOMAIN OwnBuffer : OwnBuffer[i].ts = ts THEN 0 ELSE 1)
  /\ hook.cmd = "on-stop" => OwnBuffer = <<>>

\* two lines were appended and two on-stop handed one each to the Grouper
C15_Witness ==
  /\ hook.pc = "idle"
  /\ aux.appended = 2
  /\ aux.stops = 2
  /\ aux.handed = <<1, 1>>
  /\ OwnBuffer = <<>>

\* C19 (retrieval continuity): for every summary entry of the prompt index before
\* the current one, the context on-prompt answers with is not null and holds the
\* last_activity block of that summary's description (alone, or followed by the
\* relevant_context block of the selected lines)
C19_RetrievalContinuity ==
  (hook.pc = "respond" /\ hook.cmd = "on-prompt" /\ hook.promptIndex >= 2) =>
    \A id \in SummariesOf(db, hook.promptIndex - 1) :
      /\ hook.out # Null
      /\ hook.out = assembleContext(<<lastActivityBlock(db.entries[id].description)>>,
                                    hook.sel.lines)

\* C20 (turn ordering of visibility): every entry on-stop created has the prompt
\* index the session had when it was created, and no entry in the context that
\* on-prompt of turn N answers with was created in turn N or later
C20_TurnOrdering ==
  /\ \A b \in aux.born : db.entries[b.id].prompt_index = b.turn
  /\ (hook.pc = "respond" /\ hook.cmd = "on-prompt") =>
       \A r \in hook.seen : \A b \in aux.born :
         b.id = r.id => b.turn < hook.promptIndex

\* on-prompt of turn 2 answers with a context that holds an entry on-stop created
\* in turn 1 from a tool call, and the store has an entry of turn 0 as well
C20_Witness ==
  /\ hook.pc = "respond"
  /\ hook.cmd = "on-prompt"
  /\ hook.promptIndex = 2
  /\ \E r \in hook.seen : \E b \in aux.born :
       b.id = r.id /\ b.turn = 1 /\ db.entries[b.id].entry_type # "summary"
  /\ \E b \in aux.born : b.turn = 0

\* the key field the grouping rule gives a file tool (Null: no file tool)
FileKeyField(tool) ==
  CASE tool \in {"Read", "Write", "Edit"} -> "file_path"
    [] tool = "NotebookEdit" -> "notebook_path"
    [] tool \in {"Glob", "Grep"} -> "pattern"
    [] OTHER -> Null

\* the ignored set as the rule enumerates it
IgnoredSet ==
  {"EnterPlanMode", "ExitPlanMode", "AskUserQuestion", "TodoRead", "TodoWrite",
   "TaskCreate", "TaskUpdate", "TaskList", "TaskGet"}

\* on-stop has flushed its batch: flushToEntries returned
Flushed == hook.cmd = "on-stop" /\ hook.pc = "stop_pending"

\* the tools of the calls of entry id
ToolsOf(d, id) == {d.entries[id].tool_calls[i].tool : i \in DOMAIN d.entries[id].tool_calls}

\* C16 (file tools are grouped by their key field): of the batch on-stop flushed,
\* the entries made of file-tool calls are one per distinct key value (file_path
\* for Read/Write/Edit, notebook_path for NotebookEdit, pattern for Glob/Grep) and
\* each has that key as its file_path
C16_GroupedByKeyField ==
  Flushed =>
    LET calls == SelectSeq(aux.flushed,
                   LAMBDA c : c.tool_name \notin IgnoredSet /\ FileKeyField(c.tool_name) # Null)
        keys == {calls[i].tool_input[FileKeyField(calls[i].tool_name)] : i \in DOMAIN calls}
        groups == {id \in hook.created :
                     \A t \in ToolsOf(db, id) : FileKeyField(t) # Null}
    IN /\ Cardinality(groups) = Cardinality(keys)
       /\ \A k \in keys : \E id \in groups : db.entries[id].file_path = k

\* C17 (ignored tools leave no trace): no entry on-stop created holds a call of an
\* ignored tool, and the entries created are those the Grouper makes of the batch
\* with the ignored calls removed
C17_IgnoredNoTrace ==
  Flushed =>
    LET ids == SeqOfSet(hook.created)
        kept == SelectSeq(aux.flushed, LAMBDA c : c.tool_name \notin IgnoredSet)
    IN /\ \A id \in hook.created : ToolsOf(db, id) \cap IgnoredSet = {}
       /\ [i \in DOMAIN ids |->
             [file_path |-> db.entries[ids[i]].file_path,
              entry_type |-> db.entries[ids[i]].entry_type,
              tool_calls |-> db.entries[ids[i]].tool_calls]] = flushToEntries(kept)

\* on-stop flushed a batch of an ignored call and a Read: one entry, the read
C17_Witness ==
  /\ Flushed
  /\ \E i \in DOMAIN aux.flushed : aux.flushed[i].tool_name \in IgnoredSet
  /\ Cardinality(hook.created) = 1
  /\ \E id \in hook.created : ToolsOf(db, id) = {"Read"}

\* C18 (entry type determination): an entry made of file-tool calls is a
\* file_change if one of them is Write, Edit or NotebookEdit and research if not;
\* an entry of a standalone call is a command for Bash, web for WebSearch and
\* WebFetch, research for Task and any other tool
C18_EntryType ==
  Flushed =>
    \A id \in hook.created :
      LET tools == ToolsOf(db, id)
      IN db.entries[id].entry_type =
           (IF \A t \in tools : FileKeyField(t) # Null
            THEN IF tools \cap {"Write", "Edit", "NotebookEdit"} # {}
                 THEN "file_change" ELSE "research"
            ELSE IF tools = {"Bash"} THEN "command"
            ELSE IF tools \subseteq {"WebSearch", "WebFetch"} THEN "web"
            ELSE "research")

\* on-stop flushed a batch that made a file_change entry of a Read and an Edit of
\* one file
C18_Witness ==
  /\ Flushed
  /\ \E id \in hook.created :
       /\ ToolsOf(db, id) = {"Read", "Edit"}
       /\ db.entries[id].entry_type = "file_change"

\* C21 (hooks fail safe): a hook invocation that ended has written exactly one
\* object to stdout, a running one none yet; and when the handler threw, the
\* invocation ends having written the object {} and nothing else
C21_HooksFailSafe ==
  /\ []((hook.pc = "idle" /\ aux.invoked) => Len(aux.stdout) = 1)
  /\ [](hook.pc # "idle" => aux.stdout = <<>>)
  /\ [][(hook.pc = "respond" /\ hook.threw /\ hook'.pc = "idle")
          => aux'.stdout = <<EmptyObject>>]_vars

\* the on-stop handler threw after it had inserted an entry: the catch is next
C21_Witness ==
  /\ hook.pc = "respond"
  /\ hook.cmd = "on-stop"
  /\ hook.threw
  /\ db.entries # <<>>

\* what the Grouper stored of entry id
Grouped(d, id) ==
  [file_path |-> d.entries[id].file_path,
   entry_type |-> d.entries[id].entry_type,
   tool_calls |-> d.entries[id].tool_calls]

\* the entries made of tool calls with an id below every id of S, in id order
EntriesBefore(d, S) ==
  SeqOfSet({id \in EntryIds(d) :
              d.entries[id].entry_type # "summary" /\ \A s \in S : id < s})

C23_SummaryBypass ==
  /\ \A id \in EntryIds(db) :
       db.entries[id].entry_type = "summary" => db.entries[id].annotation_status = "annotated"
  /\ \A i \in DOMAIN ann :
       \A id \in Range(ann[i].pending) \cup Range(ann[i].batch) :
         db.entries[id].entry_type # "summary"

\* an annotate run holds a batch while its prompt index has a summary entry
C23_Witness ==
  \E i \in DOMAIN ann :
    /\ ann[i].batch # <<>>
    /\ SummariesOf(db, ann[i].promptIndex) # {}

\* C29 (entries are never deleted): no step removes a row of entries or changes
\* the id, prompt_index, entry_type, file_path or tool_calls of a row, and a new
\* row gets an id above every id there is
C29_EntriesNeverDeleted ==
  [][/\ Len(db'.entries) >= Len(db.entries)
     /\ \A id \in EntryIds(db) :
          /\ db'.entries[id].prompt_index = db.entries[id].prompt_index
          /\ db'.entries[id].entry_type = db.entries[id].entry_type
          /\ db'.entries[id].file_path = db.entries[id].file_path
          /\ db'.entries[id].tool_calls = db.entries[id].tool_calls]_vars

\* an annotate run of the LLM annotated an entry of tool calls that on-stop created
C29_Witness ==
  \E id \in EntryIds(db) :
    /\ db.entries[id].entry_type # "summary"
    /\ db.entries[id].annotation_status = "annotated"
    /\ db.entries[id].description = "note a.ts"
    /\ db.entries[id].file_path = "src/a.ts"


\* C24 (on-stop is a no-op on an empty buffer): whenever no hook runs and the
\* session's buffer file is absent, empty or holds only lines that do not parse,
\* in either annotator mode, the on-stop of that state returns at once, leaves the
\* store as it is (no entry, no summary, no status change), spawns no process and
\* leaves the file empty
C24_NoopOnEmptyBuffer ==
  (hook.pc = "idle" /\ \A i \in DOMAIN OwnBuffer : ~OwnBuffer[i].json) =>
    ENABLED (/\ OnStopRead
             /\ db' = db
             /\ ann' = ann
             /\ hook' = IdleHook
             /\ buffer' = [buffer EXCEPT ![bufferPath(SessionId)] = <<>>])

\* in haiku mode, after a turn was flushed, an on-stop emptied a buffer that held
\* two lines that do not parse: the store has the entries of the first turn only
\* and one process was spawned
C24_Witness ==
  /\ config.annotator = "haiku"
  /\ hook.pc = "idle"
  /\ aux.torn = 2
  /\ aux.appended = 1
  /\ aux.stops = 1
  /\ OwnBuffer = <<>>
  /\ Len(db.entries) = 2
  /\ Len(ann) = 1


\* C27 (on-tool frame): a step in which on-tool ran with a session id and a tool
\* name (aux.appended counts these) appends exactly one line, which parses and
\* carries the tool name, to the buffer file of that session, leaves every other
\* buffer file, the store (entries, FTS, map, links, session state), the
\* configuration and the annotate processes unchanged and answers {}
C27_OnToolFrame ==
  [][aux'.appended = aux.appended + 1 =>
       LET f == bufferPath(aux'.tool.session_id)
       IN /\ Len(buffer'[f]) = Len(buffer[f]) + 1
          /\ SubSeq(buffer'[f], 1, Len(buffer[f])) = buffer[f]
          /\ buffer'[f][Len(buffer'[f])].json
          /\ buffer'[f][Len(buffer'[f])].tool_name = aux'.tool.tool_name
          /\ \A g \in BufferFiles \ {f} : buffer'[g] = buffer[g]
          /\ db' = db
          /\ config' = config
          /\ ann' = ann
          /\ aux'.stdout = <<EmptyObject>>]_vars

\* on-tool ran for another session while the session's own buffer holds a line
\* and its store holds entries
C27_Witness ==
  /\ aux.tool.session_id = "s/2"
  /\ aux.tool.tool_name = "Read"
  /\ buffer[bufferPath("s/2")] # <<>>
  /\ OwnBuffer # <<>>
  /\ db.entries # <<>>


\* C25 (call conservation and order): of the batch on-stop flushed, the calls of
\* tools that are not ignored can be given each to one created entry so that every
\* created entry's tool_calls are the summaries of exactly its calls in their
\* input order, a call of a standalone tool is alone in its entry, and the entry
\* ids increase in the Grouper's insertion order: the file-keyed entries by the
\* first call of each, then the standalone entries by their calls
C25_CallConservation ==
  Flushed =>
    LET calls == aux.flushed
        K == {i \in DOMAIN calls : calls[i].tool_name \notin IgnoredSet}
        isFile(i) == FileKeyField(calls[i].tool_name) # Null
    IN \E owner \in [K -> hook.created] :
         LET callsOf(id) == SeqOfSet({i \in K : owner[i] = id})
         IN /\ \A id \in hook.created :
                 /\ callsOf(id) # <<>>
                 /\ db.entries[id].tool_calls =
                      [n \in DOMAIN callsOf(id) |-> summarizeCall(calls[callsOf(id)[n]])]
            /\ \A i, j \in K : (~isFile(i) /\ owner[j] = owner[i]) => j = i
            /\ \A id1, id2 \in hook.created :
                 id1 < id2 =>
                   /\ ~(isFile(callsOf(id2)[1]) /\ ~isFile(callsOf(id1)[1]))
                   /\ isFile(callsOf(id1)[1]) = isFile(callsOf(id2)[1])
                        => callsOf(id1)[1] < callsOf(id2)[1]

\* on-stop flushed a Bash call followed by a Read: two entries, the Read's with
\* the lower id
C25_Witness ==
  /\ Flushed
  /\ Len(aux.flushed) = 2
  /\ aux.flushed[1].tool_name = "Bash"
  /\ aux.flushed[2].tool_name = "Read"
  /\ Cardinality(hook.created) = 2
  /\ \E id \in hook.created : ToolsOf(db, id) = {"Read"} /\ id + 1 \in hook.created


\* C26 (on-prompt bookkeeping): the session state holds under prompt_n the text of
\* the n-th on-prompt for every on-prompt so far, and the prompt index is their
\* count; the on-prompt of index 1 goes from its bookkeeping straight to its
\* answer, which is {}; a later on-prompt answers with the additionalContext the
\* Retriever returns for its prompt and index on the store, and with {} when the
\* Retriever returns null
C26_OnPromptBookkeeping ==
  /\ [](db.prompts = aux.prompted /\ getPromptIndex(db) = Len(aux.prompted))
  /\ []((hook.cmd = "on-prompt" /\ hook.promptIndex <= 1) => hook.pc = "respond")
  /\ [][(hook.pc = "respond" /\ hook.cmd = "on-prompt" /\ hook'.pc = "idle") =>
          LET idx == hook.promptIndex
              prompt == aux.prompted[idx]
              orders == RankOrders(searchFtsIds(db, buildFtsQuery(prompt), idx))
          IN IF idx <= 1 THEN aux'.stdout = <<EmptyObject>>
             ELSE \E order \in orders :
                    LET context == retrieveContext(db, prompt, idx, TOKEN_BUDGET, order).text
                    IN aux'.stdout =
                         IF context = Null THEN <<EmptyObject>>
                         ELSE <<[hookEventName |-> "UserPromptSubmit",
                                 additionalContext |-> context]>>]_vars

\* two on-prompt ran, "the" and then "a.ts"; both texts are stored and the second
\* was answered with a context
C26_Witness ==
  /\ hook.pc = "idle"
  /\ aux.prompted = <<"the", "a.ts">>
  /\ db.prompts = <<"the", "a.ts">>
  /\ Len(aux.stdout) = 1
  /\ aux.stdout[1].additionalContext # Null


\* the link types the data model lists
LinkTypes == {"depends_on", "extends", "reverts", "related"}

\* C28 (links are well-formed): every stored link has a source and a target that
\* are ids of rows of entries and a link_type out of depends_on, extends,
\* reverts, related (links is the set of stored triples: INSERT OR IGNORE under
\* UNIQUE(source_id, target_id, link_type) stores no triple twice)
C28_LinksWellFormed ==
  \A l \in db.links :
    /\ l.source_id \in EntryIds(db)
    /\ l.target_id \in EntryIds(db)
    /\ l.link_type \in LinkTypes


\* C30 (semantic-group expansion): in the step of retrieveContext that adds the
\* lines of the expansion to the BM25 lines, every added entry has the semantic
\* group of an entry selected by the BM25 loop, at most GROUP_EXPANSION_LIMIT
\* entries are added per such group, each added entry gives one added line, and
\* the context lines are as many as the selected entries: none is selected twice
C30_GroupExpansion ==
  [][(hook.pc = "prompt_expand" /\ hook'.pc = "respond") =>
       LET bm25 == hook.sel.selectedIds
           added == hook'.sel.selectedIds \ bm25
           groups == {db.entries[id].semantic_group : id \in bm25} \ {Null, ""}
       IN /\ \A id \in added : db.entries[id].semantic_group \in groups
          /\ \A g \in groups :
               Cardinality({id \in added : db.entries[id].semantic_group = g})
                 <= GROUP_EXPANSION_LIMIT
          /\ Len(hook.sel.lines) = Cardinality(bm25)
          /\ Len(hook'.sel.lines) = Len(hook.sel.lines) + Cardinality(added)
          /\ SubSeq(hook'.sel.lines, 1, Len(hook.sel.lines)) = hook.sel.lines
          /\ \A n \in (Len(hook.sel.lines) + 1)..Len(hook'.sel.lines) :
               \E id \in added : hook'.sel.lines[n] = formatEntry(FtsEntry(db, id))]_vars

\* on-prompt is about to answer with the two BM25 lines of src/a.ts and its
\* summary and three added lines, while four annotated entries of src/b.ts are
\* in the group "src"
C30_Witness ==
  /\ hook.pc = "respond"
  /\ hook.cmd = "on-prompt"
  /\ Len(hook.sel.lines) = 5
  /\ Cardinality(hook.sel.selectedIds) = 5
  /\ Cardinality({id \in EntryIds(db) :
                    /\ db.entries[id].file_path = "src/b.ts"
                    /\ db.entries[id].annotation_status = "annotated"
                    /\ db.entries[id].prompt_index < hook.promptIndex}) = 4


\* C31 (resume semantics): whenever no hook runs and the session's database
\* exists, the session-start of that state leaves the database as it is (entries,
\* FTS documents, map, links, session state, prompt index); and across resumes
\* the prompt index is the count of the on-prompt of the session, each prompt
\* stored under its index
C31_ResumeSemantics ==
  /\ (hook.pc = "idle" /\ db.schema) => ENABLED (SessionResume /\ db' = db)
  /\ aux.resumed => (getPromptIndex(db) = Len(aux.prompted) /\ db.prompts = aux.prompted)

\* a session with entries and one prompt was resumed and a second on-prompt ran
\* after that
C31_Witness ==
  /\ aux.resumed
  /\ hook.pc = "idle"
  /\ db.entries # <<>>
  /\ db.fts # {}
  /\ getPromptIndex(db) = 2


\* the token budget of a configuration: its tokenBudget, 4000 when it sets none
ConfiguredBudget(c) == IF c.tokenBudget = <<>> THEN TOKEN_BUDGET ELSE c.tokenBudget[1]

\* C32 (configured budget is applied): an on-prompt of index 2 or more answers
\* with the context the Retriever returns for its prompt and index under the
\* token budget of the configuration
C32_ConfiguredBudget ==
  [][(hook.pc = "respond" /\ hook.cmd = "on-prompt" /\ hook.promptIndex > 1
        /\ hook'.pc = "idle") =>
       LET idx == hook.promptIndex
           prompt == aux.prompted[idx]
           orders == RankOrders(searchFtsIds(db, buildFtsQuery(prompt), idx))
       IN \E order \in orders :
            aux'.stdout =
              <<HookOutput(retrieveContext(db, prompt, idx, ConfiguredBudget(config),
                                           order).text)>>]_vars


\* C33 (bounded retries): the retries a run takes are at most MAX_RETRIES entries,
\* all failed, none of a lower prompt index than a failed entry left out, and its
\* batch is no longer than its pending entries and MAX_RETRIES; and when a run
\* returns, every retry it took is annotated or failed again, so that the next
\* run can take it
C33_BoundedRetries ==
  [][\A i \in DOMAIN ann :
       /\ (ann[i].pc = "get_failed" /\ ann'[i].pc = "mark") =>
            LET retries == Range(ann'[i].retries)
                failed == {id \in EntryIds(db) : db.entries[id].annotation_status = "failed"}
            IN /\ Len(ann'[i].retries) <= MAX_RETRIES
               /\ Len(ann'[i].batch) <= Len(ann[i].pending) + MAX_RETRIES
               /\ retries \subseteq failed
               /\ \A id \in retries, other \in failed \ retries :
                    db.entries[other].prompt_index <= db.entries[id].prompt_index
               /\ Cardinality(failed) <= MAX_RETRIES => retries = failed
       /\ (ann[i].pc \notin {"done", "crashed"} /\ ann'[i].pc = "done") =>
            \A id \in Range(ann[i].retries) :
              db'.entries[id].annotation_status \in {"failed", "annotated"}]_vars


\* C34 (no buffered call lost under async on-tool): whatever on-tool appends, also
\* between on-stop's read of the buffer and its truncating write, is not lost:
\* every appended record was handed to the Grouper, or is in what the running
\* on-stop read and has yet to hand over, or is in the buffer for a later on-stop
C34_NoBufferedCallLost ==
  \A ts \in 1..aux.appended :
    \/ aux.handed[ts] >= 1
    \/ \E i \in DOMAIN OwnBuffer : OwnBuffer[i].ts = ts
    \/ hook.pc = "truncate" /\ \E i \in DOMAIN hook.raw : hook.raw[i].ts = ts


\* C35 (an annotate run changes only its own batch): a step of an annotate run
\* changes description, tags, semantic_group, confidence, low_relevance and
\* annotation_status of no entry outside the run's batch, and the annotateEntry
\* it makes for an annotation whose entry_id is outside the batch or is no entry
\* changes no entry, no FTS document and no fts_map row
C35_OnlyOwnBatch ==
  [][\A i \in DOMAIN ann :
       (ann[i].pc \in {"mark", "store", "links", "fail_loop", "catch"} /\ ann'[i] # ann[i]) =>
         LET ids == Range(ann[i].batch)
         IN /\ \A id \in EntryIds(db) \ ids :
                 /\ db'.entries[id].description = db.entries[id].description
                 /\ db'.entries[id].tags = db.entries[id].tags
                 /\ db'.entries[id].semantic_group = db.entries[id].semantic_group
                 /\ db'.entries[id].confidence = db.entries[id].confidence
                 /\ db'.entries[id].low_relevance = db.entries[id].low_relevance
                 /\ db'.entries[id].annotation_status = db.entries[id].annotation_status
            /\ (ann[i].pc = "store" /\ ann[i].phase = "annotate" /\ ann[i].frame.id \notin ids) =>
                 /\ db'.entries = db.entries
                 /\ db'.fts = db.fts
                 /\ db'.fts_map = db.fts_map]_vars


\* C36 (self mode never leaves the simple path): under the configuration
\* annotator = self no annotate process exists, whatever the hooks did, and every
\* entry's annotation_status is pending or annotated (never annotating or failed)
C36_SelfModeSimplePath ==
  config.annotator = "self" =>
    /\ ann = <<>>
    /\ \A id \in EntryIds(db) :
         db.entries[id].annotation_status \in {"pending", "annotated"}

\* in self mode two on-stop flushed a buffer and returned: four entries, all
\* annotated, and no annotate process
C36_Witness ==
  /\ config.annotator = "self"
  /\ hook.pc = "idle"
  /\ aux.stops = 2
  /\ Len(db.entries) = 4
  /\ \A id \in EntryIds(db) : db.entries[id].annotation_status = "annotated"
  /\ ann = <<>>


\* C37 (batches of concurrent annotate runs are disjoint): when two annotate
\* processes have formed their batch and neither has returned, no entry is in
\* the batch of both
C37_DisjointBatches ==
  \A i, j \in DOMAIN ann :
    (/\ i # j
     /\ ann[i].pc \in {"mark", "call", "store", "links", "fail_loop", "catch"}
     /\ ann[j].pc \in {"mark", "call", "store", "links", "fail_loop", "catch"}) =>
      Range(ann[i].batch) \cap Range(ann[j].batch) = {}

====
